---------------------------- MODULE Spec2Model ----------------------------
(***************************************************************************)
(* NeuroGate: behavioural risk engine (go-backend/main.go), bounded audit  *)
(* log (EventLog) and the login session step machine of the React client   *)
(* (DynamicLoginGate.tsx, api/neurogateAPI.ts), and the physics           *)
(* classifier of the slider challenge (GravityChallenge.tsx).              *)
(*                                                                         *)
(* Numbers.  The Go code works on float64.  All telemetry values of the    *)
(* model are integers (milliseconds, pixels, whole entropy points), the    *)
(* score adjustments are integers, and a variance is kept as the exact     *)
(* fraction num/den, so every comparison with a threshold is exact.        *)
(***************************************************************************)
EXTENDS Integers, Sequences, FiniteSets, TLC

VARIABLES
    req,          \* verify request being served (SpecRisk): [userId, telemetry]
    resp,         \* verify response of SpecRisk: [status, trustScore, requiresChallenge]
    el,           \* the EventLog object: [events (a slice header), maxSize]
    heap,         \* backing arrays of Go slices: array id -> [cap, data] or NoArray
    mu,           \* el.mu: the goroutine holding the mutex, or NoOwner
    wpc,          \* program counter of every goroutine calling LogEvent
    wev,          \* the event argument of every running LogEvent call
    rpc,          \* program counter of the goroutine calling GetEvents
    result,       \* slice header returned by the last GetEvents call, or NoSlice
    tampered,     \* whether the caller wrote into the returned list
    recorded,     \* history: every event in the order LogEvent appended it
    snapAt,       \* history: Len(recorded) when the last GetEvents copied the log
    step,         \* DynamicLoginGate: step
    loading,      \* DynamicLoginGate: loading
    error,        \* DynamicLoginGate: error (NoError or a message)
    riskResponse, \* DynamicLoginGate: riskResponse (NoRisk or a RiskResponse)
    form,         \* DynamicLoginGate: [username, password, otp]
    userIdRef,    \* DynamicLoginGate: userIdRef.current
    telemetryRef, \* DynamicLoginGate: telemetryRef.current
    net,          \* the HTTP exchange in flight between client and backend
    sessEvents,   \* history: events the backend logged for the current session
    lastMove,     \* history: the last change of step, [from, to, via]
    points,       \* GravityChallenge: movementHistoryRef.current, the trace handed to analyzePhysics
    analysis,     \* GravityChallenge: the PhysicsAnalysis returned, or NoAnalysis
    clock,        \* backend: the wall clock time.Now() reads, in whole seconds
    hreq,         \* backend: the verify request bound by every handler goroutine
    hresp,        \* backend: the response every handler goroutine has still to write
    answers,      \* history: the verify requests answered, in order, each with its answer
    hookRef,      \* useNeuroTelemetry: telemetryRef.current
    now,          \* browser: the clock Date.now() reads, in ms
    keyboard,     \* environment: the keys held down, each with the number of its press
    presses,      \* history: every key press since the last reset: [key, down, up, released]
    snapshot,     \* the TelemetryData the last getTelemetry call returned, or NoSnapshot
    resets,       \* history: the number of resetTelemetry calls
    sliderValue,  \* GravityChallenge: sliderValue
    gcStatus,     \* GravityChallenge: status
    isAnalyzing,  \* GravityChallenge: isAnalyzing
    pending,      \* GravityChallenge: the handleComplete calls in flight, each with its stage
    callbacks,    \* history: the analyses started and the callbacks invoked, in order
    arrivals,     \* history: every pointer move delivered since the trace was last cleared
    moveCount     \* history: the number of pointer moves delivered

riskVars == <<req, resp>>
logVars  == <<el, heap, recorded>>
concVars == <<mu, wpc, wev, rpc, result, tampered, snapAt>>
sessVars == <<step, loading, error, riskResponse, form, userIdRef,
              telemetryRef, net, sessEvents, lastMove>>
physVars == <<points, analysis>>
backVars == <<clock, hreq, hresp, answers>>
hookVars == <<hookRef, now, keyboard, presses, snapshot, resets>>
gcVars   == <<sliderValue, gcStatus, isAnalyzing, pending, callbacks, arrivals, moveCount>>
vars     == <<riskVars, logVars, concVars, sessVars, physVars, backVars, hookVars, gcVars>>

(***************************************************************************)
(* Sequence helpers                                                        *)
(***************************************************************************)
\* s[lo] + ... + s[hi], by halves (the depth of the recursion stays small)
RECURSIVE SumRange(_, _, _)
SumRange(s, lo, hi) ==
    IF lo > hi THEN 0
    ELSE IF lo = hi THEN s[lo]
    ELSE LET mid == (lo + hi) \div 2
         IN  SumRange(s, lo, mid) + SumRange(s, mid + 1, hi)

SumUpTo(s, n) == SumRange(s, 1, n)
SumSeq(s) == SumUpTo(s, Len(s))

Reverse(s) == [i \in 1..Len(s) |-> s[Len(s) + 1 - i]]

LastN(s, n) == IF Len(s) <= n THEN s ELSE SubSeq(s, Len(s) - n + 1, Len(s))

Min(a, b) == IF a < b THEN a ELSE b

\* floor of the square root of a natural number below 2^31 (46340 is the
\* largest root whose square fits)
RECURSIVE IsqrtIn(_, _, _)
IsqrtIn(n, lo, hi) ==
    IF lo >= hi THEN lo
    ELSE LET mid == (lo + hi + 1) \div 2
         IN  IF mid * mid <= n THEN IsqrtIn(n, mid, hi) ELSE IsqrtIn(n, lo, mid - 1)
Isqrt(n) == IsqrtIn(n, 0, Min(n, 46340))

\* exact fractions num/den with den > 0
Frac(n, d)    == [num |-> n, den |-> d]
FracLT(f, k)  == f.num < k * f.den
FracGT(f, k)  == f.num > k * f.den

(***************************************************************************)
(* RISK ENGINE (go-backend/main.go)                                        *)
(***************************************************************************)

\* calculateVariance: mean = sum/n, variance = sum((x - mean)^2)/n.  With
\* mean = S/n exactly, (x - mean) = (n*x - S)/n, so the result is the
\* fraction  sum((n*x - S)^2) / n^3.
SquaredDiffs(data, n, S) == [i \in 1..n |-> (n * data[i] - S) * (n * data[i] - S)]

calculateVariance(data) ==
    IF Len(data) < 2 THEN Frac(0, 1)
    ELSE Frac(SumSeq(SquaredDiffs(data, Len(data), SumSeq(data))),
              Len(data) * Len(data) * Len(data))

\* the acceleration magnitude of the triple ending at index i, or -1 when the
\* loop body hits `continue` (one of the two time deltas is 0).  The time
\* deltas are milliseconds converted to seconds, so a velocity is
\* 1000 * dx / dt pixels per second; the model's pointer paths use time
\* deltas that divide 1000, which makes the velocities whole numbers, and
\* acceleration vectors whose magnitude is a whole number.
accelMagnitude(mousePath, i) ==
    LET point1 == mousePath[i - 2]
        point2 == mousePath[i - 1]
        point3 == mousePath[i]
        dt1 == point2.time - point1.time
        dt2 == point3.time - point2.time
    IN  IF dt1 = 0 \/ dt2 = 0 THEN -1
        ELSE LET vel1X == ((point2.x - point1.x) * 1000) \div dt1
                 vel1Y == ((point2.y - point1.y) * 1000) \div dt1
                 vel2X == ((point3.x - point2.x) * 1000) \div dt2
                 vel2Y == ((point3.y - point2.y) * 1000) \div dt2
                 accelX == vel2X - vel1X
                 accelY == vel2Y - vel1Y
             IN  Isqrt(accelX * accelX + accelY * accelY)

\* the loop over i = 2 .. len-1 (0-based), skipping the triples it skips
accelerations(mousePath) ==
    SelectSeq([k \in 1..(Len(mousePath) - 2) |-> accelMagnitude(mousePath, k + 2)],
              LAMBDA a : a >= 0)

calculateMouseAcceleration(mousePath) ==
    IF Len(mousePath) < 3 THEN Frac(0, 1)
    ELSE calculateVariance(accelerations(mousePath))

\* the sections of CalculateRisk, each taking the running trustScore
\* faulty variant: an entropy of exactly 70 counted as high
EntropyAnalysis_Swapped(telemetry, trustScore) ==
    IF telemetry.entropyScore < 40 THEN trustScore - 35
    ELSE IF telemetry.entropyScore >= 70 THEN trustScore + 25
    ELSE trustScore + 5

\* faulty variant: only an entropy below 20 counted as robotic
EntropyAnalysis_Below20(telemetry, trustScore) ==
    IF telemetry.entropyScore < 20 THEN trustScore - 35
    ELSE IF telemetry.entropyScore > 70 THEN trustScore + 25
    ELSE trustScore + 5

EntropyAnalysis(telemetry, trustScore) ==
    IF telemetry.entropyScore < 40 THEN trustScore - 35
    ELSE IF telemetry.entropyScore > 70 THEN trustScore + 25
    ELSE trustScore + 5

FlightAnalysis(telemetry, trustScore) ==
    IF Len(telemetry.keystrokeDynamics.flightTimes) > 2
    THEN LET flightVariance == calculateVariance(telemetry.keystrokeDynamics.flightTimes)
         IN  IF FracLT(flightVariance, 100) THEN trustScore - 30
             ELSE IF FracGT(flightVariance, 1000) THEN trustScore + 15
             ELSE trustScore
    ELSE trustScore

DwellAnalysis(telemetry, trustScore) ==
    IF Len(telemetry.keystrokeDynamics.dwellTimes) > 2
    THEN LET dwellVariance == calculateVariance(telemetry.keystrokeDynamics.dwellTimes)
         IN  IF FracLT(dwellVariance, 50) THEN trustScore - 15 ELSE trustScore
    ELSE trustScore

SessionDurationAnalysis(telemetry, trustScore) ==
    IF telemetry.sessionDuration < 2000 THEN trustScore - 20
    ELSE IF telemetry.sessionDuration > 300000 THEN trustScore - 10
    ELSE trustScore

MouseMovementAnalysis(telemetry, trustScore) ==
    IF Len(telemetry.mousePath) > 10
    THEN LET acceleration == calculateMouseAcceleration(telemetry.mousePath)
         IN  IF FracLT(acceleration, 1) THEN trustScore - 25
             ELSE IF FracGT(acceleration, 50) THEN trustScore + 10
             ELSE trustScore
    ELSE trustScore

KeystrokeCountAnalysis(telemetry, trustScore) ==
    LET keystrokeCount == Len(telemetry.keystrokeDynamics.keys)
    IN  IF keystrokeCount < 3 THEN trustScore - 15 ELSE trustScore

\* faulty variant: the bonus needs more than 150 samples
MouseCountAnalysis_Strict(telemetry, trustScore) ==
    LET mousePointCount == Len(telemetry.mousePath)
    IN  IF mousePointCount < 5 THEN trustScore - 10
        ELSE IF mousePointCount > 150 THEN trustScore + 5
        ELSE trustScore

MouseCountAnalysis(telemetry, trustScore) ==
    LET mousePointCount == Len(telemetry.mousePath)
    IN  IF mousePointCount < 5 THEN trustScore - 10
        ELSE IF mousePointCount > 100 THEN trustScore + 5
        ELSE trustScore

\* faulty variant: no clamp
ClampScore_Missing(trustScore) == trustScore

\* faulty variant: clamped at 100 only
ClampScore_NoFloor(trustScore) == IF trustScore > 100 THEN 100 ELSE trustScore

ClampScore(trustScore) ==
    IF trustScore > 100 THEN 100
    ELSE IF trustScore < 0 THEN 0
    ELSE trustScore

CalculateRisk(telemetry) ==
    LET s0 == 50
        s1 == EntropyAnalysis(telemetry, s0)
        s2 == FlightAnalysis(telemetry, s1)
        s3 == DwellAnalysis(telemetry, s2)
        s4 == SessionDurationAnalysis(telemetry, s3)
        s5 == MouseMovementAnalysis(telemetry, s4)
        s6 == KeystrokeCountAnalysis(telemetry, s5)
        s7 == MouseCountAnalysis(telemetry, s6)
    IN  ClampScore(s7)

CHALLENGE_THRESHOLD == 70

\* faulty variant: a score of exactly 70 challenged
RequiresChallenge_Inclusive(trustScore) == trustScore <= CHALLENGE_THRESHOLD

RequiresChallenge(trustScore) == trustScore < CHALLENGE_THRESHOLD

EventStatus(requiresChallenge) ==
    IF requiresChallenge THEN "challenged" ELSE "success"

\* faulty variant: the score depends on what the log holds for the user
VerifyOutcome_Stateful(r) ==
    LET seen == Cardinality({i \in 1..Len(recorded) : recorded[i].userId = r.userId})
        trustScore == ClampScore(CalculateRisk(r.telemetry) - 30 * seen)
        requiresChallenge == RequiresChallenge(trustScore)
    IN  [event |-> [seq |-> 0, userId |-> r.userId, trustScore |-> trustScore,
                    status |-> EventStatus(requiresChallenge), timestamp |-> clock],
         response |-> [status |-> 200, trustScore |-> trustScore,
                       requiresChallenge |-> requiresChallenge]]

\* what VerifyBehaviorHandler computes for a bound request: the event it
\* builds (Timestamp: time.Now().Unix(), read before LogEvent is called) and
\* the response it writes
VerifyOutcome(r) ==
    LET trustScore == CalculateRisk(r.telemetry)
        requiresChallenge == RequiresChallenge(trustScore)
    IN  [event |-> [seq |-> 0, userId |-> r.userId, trustScore |-> trustScore,
                    status |-> EventStatus(requiresChallenge), timestamp |-> clock],
         response |-> [status |-> 200, trustScore |-> trustScore,
                       requiresChallenge |-> requiresChallenge]]

(***************************************************************************)
(* EVENT LOG (go-backend/main.go).  el.events is a Go slice: a header      *)
(* [arr, off, len, cap] over a backing array of the heap.  Re-slicing      *)
(* shares the array, append writes in place while len < cap and moves to   *)
(* a larger array otherwise, make allocates a new array.  An array's data  *)
(* is its written prefix.  Arrays no slice refers to are collected.        *)
(***************************************************************************)
MaxArrays == 3
ArrIds    == 1..MaxArrays

NoArray == [cap |-> -1, data |-> <<>>]
NoSlice == [arr |-> 0, off |-> 0, len |-> 0, cap |-> 0]
NoOwner == "none"

\* SecurityEvent.  ID, IP and Time are left out; seq is not a field of the
\* struct: it numbers the LogEvent calls in the order they enter the log,
\* so that events can be told apart.
SecurityEvent(seq, userId, trustScore, status, timestamp) ==
    [seq |-> seq, userId |-> userId, trustScore |-> trustScore, status |-> status,
     timestamp |-> timestamp]

SliceElems(h, s) == [i \in 1..s.len |-> h[s.arr].data[s.off + i]]

Live(events, res) == {events.arr} \cup (IF res = NoSlice THEN {} ELSE {res.arr})

FreshArr(live) == CHOOSE a \in ArrIds \ live : \A b \in ArrIds \ live : a <= b

Collect(h, live) == [a \in ArrIds |-> IF a \in live THEN h[a] ELSE NoArray]

\* Go's growslice doubles the capacity of a small slice (the allocator may
\* round it up further).
GrowCap(oldCap, needed) == IF 2 * oldCap >= needed THEN 2 * oldCap ELSE needed

\* append(s, e): the new heap and the new slice header
SliceAppend(h, s, e, live) ==
    IF s.len < s.cap
    THEN LET pos == s.off + s.len + 1
             old == h[s.arr].data
             new == IF pos > Len(old) THEN Append(old, e) ELSE [old EXCEPT ![pos] = e]
         IN  [heap  |-> [h EXCEPT ![s.arr].data = new],
              slice |-> [s EXCEPT !.len = s.len + 1]]
    ELSE LET a == FreshArr(live)
             c == GrowCap(s.cap, s.len + 1)
         IN  [heap  |-> [h EXCEPT ![a] = [cap |-> c, data |-> Append(SliceElems(h, s), e)]],
              slice |-> [arr |-> a, off |-> 0, len |-> s.len + 1, cap |-> c]]

\* s[k:]
SliceFrom(s, k) == [s EXCEPT !.off = s.off + k, !.len = s.len - k, !.cap = s.cap - k]

maxSizeOfMain == 50

NewEventLog(maxSize) ==
    [el   |-> [events |-> [arr |-> 1, off |-> 0, len |-> 0, cap |-> maxSize],
               maxSize |-> maxSize],
     heap |-> [a \in ArrIds |-> IF a = 1 THEN [cap |-> maxSize, data |-> <<>>] ELSE NoArray]]

\* LogEvent, line 403: el.events = append(el.events, event)
LogEventAppend(l, h, event, res) ==
    LET r == SliceAppend(h, l.events, event, Live(l.events, res))
    IN  [el |-> [l EXCEPT !.events = r.slice], heap |-> r.heap]

\* faulty variant: the log is never trimmed
LogEventTrim_Never(l) == l

\* LogEvent, lines 406-408: keep only the last maxSize events
LogEventTrim(l) ==
    IF l.events.len > l.maxSize
    THEN [l EXCEPT !.events = SliceFrom(l.events, l.events.len - l.maxSize)]
    ELSE l

\* the whole of LogEvent, as one call made by the holder of the mutex
LogEvent(l, h, event, res) ==
    LET a == LogEventAppend(l, h, event, res)
        t == LogEventTrim(a.el)
    IN  [el |-> t, heap |-> Collect(a.heap, Live(t.events, res))]

\* faulty variant: GetEvents returns el.events itself
GetEventsCopy_Alias(l, h, res) == [heap |-> h, slice |-> l.events]

\* GetEvents, lines 419-423: result := make(..., len(el.events)), filled in
\* reverse order
GetEventsCopy(l, h, res) ==
    LET a == FreshArr(Live(l.events, res))
        n == l.events.len
    IN  [heap  |-> [h EXCEPT ![a] = [cap |-> n, data |-> Reverse(SliceElems(h, l.events))]],
         slice |-> [arr |-> a, off |-> 0, len |-> n, cap |-> n]]

\* the log as GetEvents would list it now
LogView == SliceElems(heap, el.events)

(***************************************************************************)
(* Telemetry snapshots the requests are drawn from                         *)
(***************************************************************************)
\* a pointer path of n samples, dt ms apart, moving 5 px right per sample,
\* every fourth sample displaced by (jx, jy)
Path(n, dt, jx, jy) ==
    [i \in 1..n |-> [x    |-> 5 * i + (IF i % 4 = 0 THEN jx ELSE 0),
                     y    |-> IF i % 4 = 0 THEN jy ELSE 0,
                     time |-> i * dt]]

\* constant velocity / mild jitter / strong jitter / one timestamp for all
\* samples (TLC's integers are 32 bits wide: the jitter is sized so that the
\* sums of squares in calculateVariance stay below 2^31)
PathShapes == {<<10, 0, 0>>, <<1000, 0, 3>>, <<1000, 12, 9>>, <<0, 0, 0>>}

MousePaths ==
    {Path(n, 10, 0, 0) : n \in {0, 4, 5, 10}}
    \cup {Path(n, p[1], p[2], p[3]) : n \in {11, 101}, p \in PathShapes}
    \cup {Path(100, 1000, 12, 9)}

FlightTimeSets ==
    {<<>>, <<100, 100>>, <<100, 100, 100>>, <<90, 110, 90, 110>>,
     <<150, 50, 100, 100, 100>>, <<50, 100, 200, 50, 200>>}

DwellTimeSets == {<<48, 48>>, <<45, 45, 45>>, <<90, 110, 100, 100>>}

KeySeq(n) == [i \in 1..n |-> "k"]

KeySets == {KeySeq(2), KeySeq(3)}

EntropyScores == {15, 39, 40, 70, 71, 85}

SessionDurations == {1200, 1999, 2000, 300000, 300001}

Telemetry(f, d, k, m, e, sd) ==
    [keystrokeDynamics |-> [flightTimes |-> f, dwellTimes |-> d, keys |-> k],
     mousePath |-> m, entropyScore |-> e, sessionDuration |-> sd]

Telemetries ==
    {Telemetry(f, d, k, m, e, sd) :
        f \in FlightTimeSets, d \in DwellTimeSets, k \in KeySets,
        m \in MousePaths, e \in EntropyScores, sd \in SessionDurations}

\* the snapshots of the documented scenarios.  Natural login: entropy 85,
\* widely spread flight times, 8500 ms, 150 pointer samples of every shape.
NaturalLoginTelemetries ==
    {Telemetry(<<50, 100, 200, 50, 200>>, d, k, Path(150, p[1], p[2], p[3]), 85, 8500) :
        d \in DwellTimeSets, k \in KeySets, p \in PathShapes}

\* Suspicious bot: entropy 15, five identical flight times, five identical
\* dwell times, 1200 ms, no pointer sample.
SuspiciousBotTelemetries ==
    {Telemetry(<<f, f, f, f, f>>, <<d, d, d, d, d>>, KeySeq(k), <<>>, 15, 1200) :
        f \in {80, 100}, d \in {50, 120}, k \in {0, 2, 4}}

\* README, Test Case 1.  The pointer samples keep their distance in time to
\* the first one (1700681234000 does not fit TLC's integers; with 8 samples
\* CalculateRisk never reads the times).
ReadmeTestCase1 ==
    Telemetry(<<120, 95, 110, 105, 98, 115, 92>>, <<45, 50, 48, 46, 49, 47, 51>>,
              <<"a", "l", "i", "c", "e", "1", "2">>,
              <<[x |-> 450, y |-> 300, time |-> 0],   [x |-> 452, y |-> 301, time |-> 16],
                [x |-> 455, y |-> 303, time |-> 32],  [x |-> 460, y |-> 308, time |-> 50],
                [x |-> 468, y |-> 315, time |-> 75],  [x |-> 480, y |-> 328, time |-> 110],
                [x |-> 495, y |-> 340, time |-> 150], [x |-> 510, y |-> 350, time |-> 200]>>,
              85, 15000)

ScenarioTelemetries ==
    NaturalLoginTelemetries \cup SuspiciousBotTelemetries \cup {ReadmeTestCase1}

(***************************************************************************)
(* PHYSICS CLASSIFIER (components/GravityChallenge.tsx).  The code works   *)
(* on JavaScript numbers.  In the model a sample has whole-number          *)
(* coordinates and timestamp, and every move between two samples has a     *)
(* whole-number length, so that distance is exact.  A velocity is the      *)
(* fraction dist/dt; the velocities of one trace are kept as whole numbers *)
(* in units of 1/scale px/ms, scale being their common denominator.  The   *)
(* confidence is kept in twentieths: 0.5 is 10, 0.4 is 8, 1 is 20 (every   *)
(* adjustment is a multiple of 0.05; the float sums of the code fall on    *)
(* the same side of 0.4 as the exact sums for every combination of         *)
(* adjustments).                                                           *)
(***************************************************************************)
MIN_MOVEMENT_TIME  == 50
VELOCITY_THRESHOLD == 500
MIN_SAMPLES        == 15

MovementPoint(timestamp, x, y) == [timestamp |-> timestamp, x |-> x, y |-> y]

Abs(a) == IF a < 0 THEN -a ELSE a

RECURSIVE GCD(_, _)
GCD(a, b) == IF b = 0 THEN a ELSE GCD(b, a % b)

LCM(a, b) == (a \div GCD(a, b)) * b

\* the largest of s[lo..hi], by halves
RECURSIVE MaxRange(_, _, _)
MaxRange(s, lo, hi) ==
    IF lo = hi THEN s[lo]
    ELSE LET mid == (lo + hi) \div 2
             l   == MaxRange(s, lo, mid)
             r   == MaxRange(s, mid + 1, hi)
         IN  IF r > l THEN r ELSE l

MaxUpTo(s, n) == MaxRange(s, 1, n)

\* distance(p1, p2)
distance(p1, p2) ==
    LET dx == p2.x - p1.x
        dy == p2.y - p1.y
    IN  Isqrt(dx * dx + dy * dy)

\* the consecutive pairs whose velocity is finite: calculateVelocity returns
\* Infinity for a time difference of 0, and analyzePhysics keeps a velocity
\* only if isFinite
FiniteMoves(pts) ==
    SelectSeq([i \in 1..(Len(pts) - 1) |->
                  [dist |-> distance(pts[i], pts[i + 1]),
                   dt   |-> pts[i + 1].timestamp - pts[i].timestamp]],
              LAMBDA m : m.dt # 0)

\* the common denominator of the fractions dist/dt
RECURSIVE VelScaleRange(_, _, _)
VelScaleRange(ms, lo, hi) ==
    IF lo > hi THEN 1
    ELSE IF lo = hi THEN ms[lo].dt \div GCD(ms[lo].dist, ms[lo].dt)
    ELSE LET mid == (lo + hi) \div 2
         IN  LCM(VelScaleRange(ms, lo, mid), VelScaleRange(ms, mid + 1, hi))

VelScaleUpTo(ms, n) == VelScaleRange(ms, 1, n)

VelScale(pts) == VelScaleUpTo(FiniteMoves(pts), Len(FiniteMoves(pts)))

\* calculateVelocity over the finite moves, in units of 1/scale px/ms
calculateVelocity(m, scale) == (m.dist * scale) \div m.dt

Velocities(pts) ==
    LET ms == FiniteMoves(pts)
        scale == VelScale(pts)
    IN  [i \in 1..Len(ms) |-> calculateVelocity(ms[i], scale)]

calculateAccelerations(velocities) ==
    [i \in 1..(Len(velocities) - 1) |-> Abs(velocities[i + 1] - velocities[i])]

\* measureLinearity.  With t = index, meanT = (n-1)/2 and meanX = Sx/n the
\* residual of sample i is res[i] / (2n(n-1)) and its distance to the mean
\* is tot[i] / n, so that ssRes/ssTot = sum(res^2) / (4 (n-1)^2 sum(tot^2)).
\* The result rSquared = 1 - ssRes/ssTot is returned as the pair
\* [res |-> sum(res^2), tot |-> (n-1)^2 sum(tot^2)], which stands for
\* 1 - res/(4 tot); [res |-> 0, tot |-> 1] is 1 and [res |-> 4, tot |-> 1]
\* is 0.  The clamp to [0,1] changes no comparison with 0.95 or 0.7.
measureLinearity(pts) ==
    IF Len(pts) < 3 THEN [res |-> 4, tot |-> 1]
    ELSE LET n     == Len(pts)
             Sx    == SumSeq([i \in 1..n |-> pts[i].x])
             delta == pts[n].x - pts[1].x
             tot   == [i \in 1..n |-> n * pts[i].x - Sx]
             res   == [i \in 1..n |->
                          2 * (n - 1) * tot[i] - n * (2 * (i - 1) - (n - 1)) * delta]
             ssTot == SumSeq([i \in 1..n |-> tot[i] * tot[i]])
             ssRes == SumSeq([i \in 1..n |-> res[i] * res[i]])
         IN  IF ssTot = 0 THEN [res |-> 0, tot |-> 1]
             ELSE [res |-> ssRes, tot |-> (n - 1) * (n - 1) * ssTot]

\* linearity > LINEARITY_THRESHOLD (0.95):  res/(4 tot) < 1/20
LinearityAboveThreshold(l) == l.res <= (l.tot - 1) \div 5

\* linearity > 0.7:  res/(4 tot) < 3/10, i.e. 5 (res - tot) < tot
LinearityAbove70(l) == l.res - l.tot <= (l.tot - 1) \div 5

\* the variance of the accelerations, sum((a - avg)^2)/m, as the fraction
\* (m sum(a^2) - (sum a)^2) / (m^2 scale^2), in (px/ms)^2
AccelVariance(accels, scale) ==
    LET m == Len(accels)
    IN  Frac(m * SumSeq([i \in 1..m |-> accels[i] * accels[i]])
                 - SumSeq(accels) * SumSeq(accels),
             m * m * scale * scale)

\* accelStdDev > 1/k, i.e. variance > 1/k^2, for k = 20 (0.05), 100 (0.01)
StdDevAbove(variance, k) == variance.num > variance.den \div (k * k)

\* CHECK 5: the number of inner samples at which the direction changes, the
\* cosine between the two moves being below 0.95 = 19/20
directionChanges(pts) ==
    Cardinality({i \in 2..(Len(pts) - 1) :
        LET v1x  == pts[i].x - pts[i - 1].x
            v1y  == pts[i].y - pts[i - 1].y
            v2x  == pts[i + 1].x - pts[i].x
            v2y  == pts[i + 1].y - pts[i].y
            len1 == distance(pts[i - 1], pts[i])
            len2 == distance(pts[i], pts[i + 1])
        IN  /\ len1 > 0
            /\ len2 > 0
            /\ 20 * (v1x * v2x + v1y * v2y) < 19 * len1 * len2})

\* the five checks: the adjustment of the confidence, in twentieths, and
\* the reason pushed (NoReason when the check pushes none)
NoReason == ""

InstantMovementCheck(pts) ==
    LET timeDiff == pts[2].timestamp - pts[1].timestamp
    IN  IF timeDiff = 0 THEN [delta |-> -6, reason |-> "instant movement"]
        ELSE IF timeDiff < MIN_MOVEMENT_TIME
        THEN [delta |-> -4, reason |-> "fast initial movement"]
        ELSE [delta |-> 2, reason |-> "natural movement onset"]

\* Math.max() of no velocity is -Infinity, which is not above the threshold
VelocityCheck(pts) ==
    LET velocities == Velocities(pts)
    IN  IF Len(velocities) > 0
           /\ MaxUpTo(velocities, Len(velocities)) > VELOCITY_THRESHOLD * VelScale(pts)
        THEN [delta |-> -5, reason |-> "high velocity"]
        ELSE [delta |-> 2, reason |-> "natural velocity range"]

LinearityCheck(pts) ==
    LET linearity == measureLinearity(pts)
    IN  IF LinearityAboveThreshold(linearity)
        THEN [delta |-> -6, reason |-> "too linear"]
        ELSE IF LinearityAbove70(linearity)
        THEN [delta |-> -2, reason |-> "somewhat linear"]
        ELSE [delta |-> 4, reason |-> "natural acceleration variations"]

\* faulty variant: acceleration noise counted like mere variation
AccelerationCheck_Weak(pts) ==
    LET accels == calculateAccelerations(Velocities(pts))
        variance == AccelVariance(accels, VelScale(pts))
    IN  IF Len(accels) = 0 THEN [delta |-> 0, reason |-> NoReason]
        ELSE IF StdDevAbove(variance, 100)
        THEN [delta |-> 2, reason |-> "some acceleration variation"]
        ELSE [delta |-> -3, reason |-> "smooth acceleration"]

AccelerationCheck(pts) ==
    LET accels == calculateAccelerations(Velocities(pts))
        variance == AccelVariance(accels, VelScale(pts))
    IN  IF Len(accels) = 0 THEN [delta |-> 0, reason |-> NoReason]
        ELSE IF StdDevAbove(variance, 20)
        THEN [delta |-> 4, reason |-> "acceleration noise"]
        ELSE IF StdDevAbove(variance, 100)
        THEN [delta |-> 2, reason |-> "some acceleration variation"]
        ELSE [delta |-> -3, reason |-> "smooth acceleration"]

\* directionChanges > points.length * 0.2
DirectionCheck(pts) ==
    IF 5 * directionChanges(pts) > Len(pts)
    THEN [delta |-> 3, reason |-> "direction adjustments"]
    ELSE [delta |-> 0, reason |-> NoReason]

\* faulty variant: a trace of 14 samples is analysed
InsufficientSamples_Fourteen(pts) == Len(pts) < MIN_SAMPLES - 1

InsufficientSamples(pts) == Len(pts) < MIN_SAMPLES

\* faulty variant: the confidence is returned as computed
ClampConfidence_Missing(confidence) == confidence

\* Math.max(0, Math.min(1, confidence))
ClampConfidence(confidence) ==
    IF confidence > 20 THEN 20 ELSE IF confidence < 0 THEN 0 ELSE confidence

analyzePhysics(pts) ==
    IF InsufficientSamples(pts)
    THEN [isHuman |-> FALSE, confidence |-> 0,
          reasons |-> <<"insufficient movement samples">>,
          velocities |-> <<>>, accelerations |-> <<>>]
    ELSE LET c1 == InstantMovementCheck(pts)
             c2 == VelocityCheck(pts)
             c3 == LinearityCheck(pts)
             c4 == AccelerationCheck(pts)
             c5 == DirectionCheck(pts)
             confidence == 10 + c1.delta + c2.delta + c3.delta + c4.delta + c5.delta
             isHuman == confidence > 8
             verdict == IF isHuman THEN "HUMAN DETECTED" ELSE "BOT SUSPECTED"
         IN  [isHuman |-> isHuman,
              confidence |-> ClampConfidence(confidence),
              reasons |-> SelectSeq(<<c1.reason, c2.reason, c3.reason, c4.reason,
                                      c5.reason, verdict>>,
                                    LAMBDA r : r # NoReason),
              velocities |-> Velocities(pts),
              accelerations |-> calculateAccelerations(Velocities(pts))]

(***************************************************************************)
(* Movement traces handed to analyzePhysics: a first move, then the moves  *)
(* of a pattern in turn, optionally with one jump put in.  A move is       *)
(* <<dt, dx, dy>>.  (TLC's integers are 32 bits wide: the moves are sized  *)
(* so that the sums of squares stay below 2^31.)                           *)
(***************************************************************************)
Rep(m, k) == [i \in 1..k |-> m]

\* 0 ms, 10 ms and 50 ms between the first two samples
FirstMoves == {<<0, 1, 0>>, <<10, 1, 0>>, <<50, 5, 0>>}

\* a jump of 501 px within 1 ms
Jump   == <<1, 0, 501>>
JumpAt == 4

\* patterns a jump may be put into
JumpPatterns ==
    {<<<<10, 1, 0>>>>,                                       \* even pace to the right
     <<<<10, 3, 4>>, <<10, 3, -4>>, <<50, 3, 4>>, <<10, 3, -4>>>>, \* zigzag, uneven pace
     <<<<50, 0, 0>>>>}                                       \* no movement

SteadyPatterns ==
    {Rep(<<10, 1, 0>>, 12) \o Rep(<<50, 5, 0>>, 6),          \* one velocity, uneven gaps
     <<<<50, 3, 4>>, <<50, 3, -4>>>>,                        \* zigzag, even pace
     <<<<50, 3, 4>>, <<50, 3, -4>>, <<100, 3, 4>>, <<50, 3, -4>>>>,
     <<<<50, 2, 0>>, <<50, -1, 0>>, <<10, 2, 0>>>>,          \* back and forth
     <<<<50, 3, 0>>, <<10, -2, 0>>, <<50, -3, 0>>, <<10, 3, 0>>, <<20, 0, 2>>,
       <<50, -1, 0>>>>,                                      \* wandering
     <<<<0, 1, 0>>>>,                                        \* one timestamp for all
     <<<<0, 3, 4>>, <<0, 3, -4>>>>,                          \* the same, zigzag
     <<<<0, 3, 0>>, <<0, -2, 0>>, <<0, -3, 0>>, <<0, 3, 0>>, <<0, 0, 2>>,
       <<0, -1, 0>>>>}                                       \* the same, wandering

SampleCounts == {0, 1, 2, 14, 15, 20}

Moves(n, first, pattern, jump) ==
    [i \in 1..(n - 1) |->
        IF i = 1 THEN first
        ELSE IF jump /\ i = JumpAt THEN Jump
        ELSE pattern[((i - 2) % Len(pattern)) + 1]]

\* the first n moves made from (0, 0) at 1000 ms
TraceUpTo(moves, n) ==
    [i \in 1..(n + 1) |->
        MovementPoint(1000 + SumRange([k \in 1..n |-> moves[k][1]], 1, i - 1),
                      SumRange([k \in 1..n |-> moves[k][2]], 1, i - 1),
                      SumRange([k \in 1..n |-> moves[k][3]], 1, i - 1))]

Trace(n, first, pattern, jump) ==
    IF n = 0 THEN <<>>
    ELSE TraceUpTo(Moves(n, first, pattern, jump), n - 1)

MovementTraces ==
    {Trace(n, f, p, FALSE) : n \in SampleCounts, f \in FirstMoves,
                             p \in JumpPatterns \cup SteadyPatterns}
    \cup {Trace(n, f, p, TRUE) : n \in SampleCounts, f \in FirstMoves, p \in JumpPatterns}

(***************************************************************************)
(* Rest values                                                             *)
(***************************************************************************)
Writers  == {"w1", "w2"}
NoEvent  == SecurityEvent(0, "", 0, "", 0)
NoResp   == [status |-> 0]
NoReq    == [userId |-> "", telemetry |-> Telemetry(<<>>, <<>>, <<>>, <<>>, 0, 0)]
NoError  == ""
NoRisk   == [status |-> 0]
NoNet    == [phase |-> "idle"]
NoMove   == [from |-> "", to |-> "", via |-> ""]
NoAnalysis == [isHuman |-> FALSE, confidence |-> -1, reasons |-> <<>>,
               velocities |-> <<>>, accelerations |-> <<>>]
NoSnapshot == [entropyScore |-> -1]
NoTelemetryRef ==
    [keystrokeDynamics |-> [flightTimes |-> <<>>, dwellTimes |-> <<>>, keys |-> <<>>],
     mousePath |-> <<>>, lastKeyUpTime |-> 0, keyDownTime |-> 0, sessionStartTime |-> 0]

LogAtBoot ==
    /\ el = NewEventLog(maxSizeOfMain).el
    /\ heap = NewEventLog(maxSizeOfMain).heap
    /\ recorded = <<>>

ConcAtRest ==
    /\ mu = NoOwner
    /\ wpc = [w \in Writers |-> "idle"]
    /\ wev = [w \in Writers |-> NoEvent]
    /\ rpc = "idle"
    /\ result = NoSlice
    /\ tampered = FALSE
    /\ snapAt = 0

RiskAtRest == req = NoReq /\ resp = NoResp

SessAtRest ==
    /\ step = "login"
    /\ loading = FALSE
    /\ error = NoError
    /\ riskResponse = NoRisk
    /\ form = [username |-> "", password |-> "", otp |-> <<>>]
    /\ userIdRef = ""
    /\ telemetryRef = NoReq.telemetry
    /\ net = NoNet
    /\ sessEvents = <<>>
    /\ lastMove = NoMove

PhysAtRest == points = <<>> /\ analysis = NoAnalysis

BackAtRest ==
    /\ clock = 0
    /\ hreq = [w \in Writers |-> NoReq]
    /\ hresp = [w \in Writers |-> NoResp]
    /\ answers = <<>>

HookAtRest ==
    /\ hookRef = NoTelemetryRef
    /\ now = 0
    /\ keyboard = {}
    /\ presses = <<>>
    /\ snapshot = NoSnapshot
    /\ resets = 0

GcAtRest ==
    /\ sliderValue = 0
    /\ gcStatus = "idle"
    /\ isAnalyzing = FALSE
    /\ pending = <<>>
    /\ callbacks = <<>>
    /\ arrivals = <<>>
    /\ moveCount = 0

OthersAtRest == BackAtRest /\ HookAtRest /\ GcAtRest

(***************************************************************************)
(* SpecRisk: one verify request, served by VerifyBehaviorHandler           *)
(***************************************************************************)
InitRisk ==
    /\ req \in {[userId |-> "alice", telemetry |-> t] :
                    t \in Telemetries \cup ScenarioTelemetries}
    /\ resp = NoResp
    /\ LogAtBoot
    /\ ConcAtRest
    /\ SessAtRest
    /\ PhysAtRest
    /\ OthersAtRest

\* VerifyBehaviorHandler for a request that binds: score, log, respond
VerifyBehaviorHandler ==
    /\ resp = NoResp
    /\ LET o == VerifyOutcome(req)
           e == [o.event EXCEPT !.seq = Len(recorded) + 1]
           l == LogEvent(el, heap, e, result)
       IN  /\ el' = l.el
           /\ heap' = l.heap
           /\ recorded' = Append(recorded, e)
           /\ resp' = o.response
    /\ UNCHANGED <<req, concVars, sessVars, physVars, backVars, hookVars, gcVars>>

NextRisk == VerifyBehaviorHandler

SpecRisk == InitRisk /\ [][NextRisk]_vars

\* the event VerifyBehaviorHandler logged for the request
LoggedEvent == LogView[Len(LogView)]

(***************************************************************************)
(* C1: the trust score is clamp(50 + the seven tabled adjustments, 0, 100) *)
(***************************************************************************)
\* population variance (n * sum(x^2) - (sum x)^2) / n^2
PopVariance(data) ==
    LET n == Len(data)
    IN  Frac(n * SumSeq([i \in 1..n |-> data[i] * data[i]]) - SumSeq(data) * SumSeq(data),
             n * n)

TabEntropy(t) ==
    IF t.entropyScore < 40 THEN -35
    ELSE IF t.entropyScore <= 70 THEN 5 ELSE 25

TabFlight(t) ==
    LET f == t.keystrokeDynamics.flightTimes
    IN  IF Len(f) >= 3 /\ FracLT(PopVariance(f), 100) THEN -30
        ELSE IF Len(f) >= 3 /\ FracGT(PopVariance(f), 1000) THEN 15 ELSE 0

TabDwell(t) ==
    LET d == t.keystrokeDynamics.dwellTimes
    IN  IF Len(d) >= 3 /\ FracLT(PopVariance(d), 50) THEN -15 ELSE 0

TabSession(t) ==
    IF t.sessionDuration < 2000 THEN -20
    ELSE IF t.sessionDuration > 300000 THEN -10 ELSE 0

TabPointerAccel(t) ==
    LET m == t.mousePath
    IN  IF Len(m) > 10 /\ FracLT(calculateMouseAcceleration(m), 1) THEN -25
        ELSE IF Len(m) > 10 /\ FracGT(calculateMouseAcceleration(m), 50) THEN 10 ELSE 0

TabKeyCount(t) == IF Len(t.keystrokeDynamics.keys) < 3 THEN -15 ELSE 0

TabPointerCount(t) ==
    IF Len(t.mousePath) < 5 THEN -10
    ELSE IF Len(t.mousePath) > 100 THEN 5 ELSE 0

TabSum(t) ==
    50 + TabEntropy(t) + TabFlight(t) + TabDwell(t) + TabSession(t)
       + TabPointerAccel(t) + TabKeyCount(t) + TabPointerCount(t)

Clamp(v, lo, hi) == IF v < lo THEN lo ELSE IF v > hi THEN hi ELSE v

C1_ScoreIsClampedTableSum ==
    resp.status = 200 => resp.trustScore = Clamp(TabSum(req.telemetry), 0, 100)

\* a request where six factors adjust and nothing clamps: 50+25-30-15-10+10+5
C1_Witness ==
    /\ resp.status = 200
    /\ req.telemetry = Telemetry(<<100, 100, 100>>, <<45, 45, 45>>, KeySeq(3),
                                 Path(101, 1000, 12, 9), 85, 300001)
    /\ resp.trustScore = 35

(***************************************************************************)
(* C2: the score returned, sent and logged lies in [0,100]                 *)
(***************************************************************************)
C2_ScoreInRange ==
    resp.status = 200 =>
        /\ CalculateRisk(req.telemetry) \in 0..100
        /\ resp.trustScore \in 0..100
        /\ LoggedEvent.trustScore \in 0..100

\* both clamps act: a sum below 0 answered with 0, a sum above 100 with 100
C2_WitnessLow ==
    resp.status = 200 /\ TabSum(req.telemetry) < 0 /\ resp.trustScore = 0
                      /\ LoggedEvent.trustScore = 0

MaxEvents == 102

Reader   == "reader"
Tampered == SecurityEvent(-1, "mallory", 100, "success", 0)

InitLog == LogAtBoot /\ ConcAtRest /\ RiskAtRest /\ SessAtRest /\ PhysAtRest /\ OthersAtRest

\* faulty variant: no mutual exclusion
TryLock_NoMutex(g) == TRUE

\* el.mu.Lock() returns only when no goroutine holds the mutex
TryLock(g) == mu = NoOwner

LogEvent_Lock(w) ==
    /\ wpc[w] = "idle"
    /\ Len(recorded) < MaxEvents
    /\ TryLock(w)
    /\ mu' = w
    /\ wpc' = [wpc EXCEPT ![w] = "append"]
    /\ wev' = [wev EXCEPT ![w] = SecurityEvent(0, "user", 50, "challenged", clock)]
    /\ UNCHANGED <<rpc, result, tampered, snapAt, logVars, riskVars, sessVars, physVars, backVars, hookVars, gcVars>>

LogEvent_Append(w) ==
    /\ wpc[w] = "append"
    /\ LET e == [wev[w] EXCEPT !.seq = Len(recorded) + 1]
           a == LogEventAppend(el, heap, e, result)
       IN  /\ el' = a.el
           /\ heap' = Collect(a.heap, Live(a.el.events, result))
           /\ recorded' = Append(recorded, e)
    /\ wpc' = [wpc EXCEPT ![w] = "trim"]
    /\ UNCHANGED <<mu, wev, rpc, result, tampered, snapAt, riskVars, sessVars, physVars, backVars, hookVars, gcVars>>

LogEvent_Trim(w) ==
    /\ wpc[w] = "trim"
    /\ el' = LogEventTrim(el)
    /\ wpc' = [wpc EXCEPT ![w] = "unlock"]
    /\ UNCHANGED <<heap, recorded, mu, wev, rpc, result, tampered, snapAt,
                   riskVars, sessVars, physVars, backVars, hookVars, gcVars>>

LogEvent_Unlock(w) ==
    /\ wpc[w] = "unlock"
    /\ mu' = NoOwner
    /\ wpc' = [wpc EXCEPT ![w] = "idle"]
    /\ wev' = [wev EXCEPT ![w] = NoEvent]
    /\ UNCHANGED <<rpc, result, tampered, snapAt, logVars, riskVars, sessVars, physVars, backVars, hookVars, gcVars>>

GetEvents_Lock ==
    /\ rpc \in {"idle", "returned"}
    /\ TryLock(Reader)
    /\ mu' = Reader
    /\ rpc' = "copy"
    /\ result' = NoSlice
    /\ tampered' = FALSE
    /\ heap' = Collect(heap, Live(el.events, NoSlice))
    /\ UNCHANGED <<el, recorded, wpc, wev, snapAt, riskVars, sessVars, physVars, backVars, hookVars, gcVars>>

GetEvents_Copy ==
    /\ rpc = "copy"
    /\ LET c == GetEventsCopy(el, heap, result)
       IN  /\ result' = c.slice
           /\ heap' = c.heap
    /\ snapAt' = Len(recorded)
    /\ rpc' = "unlock"
    /\ UNCHANGED <<el, recorded, mu, wpc, wev, tampered, riskVars, sessVars, physVars, backVars, hookVars, gcVars>>

GetEvents_Unlock ==
    /\ rpc = "unlock"
    /\ mu' = NoOwner
    /\ rpc' = "returned"
    /\ UNCHANGED <<wpc, wev, result, tampered, snapAt, logVars, riskVars, sessVars, physVars, backVars, hookVars, gcVars>>

\* the caller overwrites the first or the last element of the list it got
CallerModify ==
    /\ rpc = "returned"
    /\ ~tampered
    /\ result.len > 0
    /\ \E i \in {1, result.len} :
          heap' = [heap EXCEPT ![result.arr].data[result.off + i] = Tampered]
    /\ tampered' = TRUE
    /\ UNCHANGED <<el, recorded, mu, wpc, wev, rpc, result, snapAt, riskVars, sessVars, physVars, backVars, hookVars, gcVars>>

NextLog ==
    \/ \E w \in Writers : LogEvent_Lock(w)
    \/ \E w \in Writers : LogEvent_Append(w)
    \/ \E w \in Writers : LogEvent_Trim(w)
    \/ \E w \in Writers : LogEvent_Unlock(w)
    \/ GetEvents_Lock
    \/ GetEvents_Copy
    \/ GetEvents_Unlock
    \/ CallerModify

SpecLog == InitLog /\ [][NextLog]_vars

\* the list GetEvents returned, as its caller reads it now
ResultView == SliceElems(heap, result)

(***************************************************************************)
(* C4: after N LogEvent calls GetEvents returns the min(N,50) most         *)
(* recently recorded events, most recent first                             *)
(***************************************************************************)
C4_LastFiftyNewestFirst ==
    (rpc \in {"unlock", "returned"} /\ ~tampered) =>
        /\ Len(ResultView) = Min(snapAt, 50)
        /\ \A i \in 1..Len(ResultView) : ResultView[i] = recorded[snapAt + 1 - i]

\* more than 50 calls were made and the list holds 50 events, newest first
C4_Witness ==
    /\ rpc = "returned"
    /\ ~tampered
    /\ snapAt > 50
    /\ Len(ResultView) = 50
    /\ ResultView[1].seq = snapAt
    /\ ResultView[50].seq = snapAt - 49

(***************************************************************************)
(* C5: calls take effect atomically under the mutex: GetEvents never       *)
(* copies the log between an append and its trim, never returns more than  *)
(* maxSize events, and events leave the log only by eviction of the oldest *)
(***************************************************************************)
InLogEvent == {w \in Writers : wpc[w] # "idle"}
InGetEvents == IF rpc \in {"copy", "unlock"} THEN {Reader} ELSE {}

C5_CallsAreAtomic ==
    /\ Cardinality(InLogEvent \cup InGetEvents) <= 1
    /\ InLogEvent \cup InGetEvents \subseteq {mu}
    /\ (rpc = "copy") => (el.events.len <= el.maxSize)
    /\ (result # NoSlice) => (result.len <= el.maxSize)
    /\ (\A w \in Writers : wpc[w] # "trim") => LogView = LastN(recorded, el.maxSize)
    /\ (\E w \in Writers : wpc[w] = "trim") =>
           LogView = LastN(recorded, el.maxSize + 1)

\* a writer stands between its append and its trim with 51 events in the
\* slice, while the list returned before holds 50
C5_Witness ==
    /\ wpc["w1"] = "trim"
    /\ el.events.len = el.maxSize + 1
    /\ rpc = "returned"
    /\ result.len = el.maxSize

(***************************************************************************)
(* C6: GetEvents returns a fresh copy: writing into the returned list does *)
(* not change the log, and later LogEvent calls do not change the list     *)
(***************************************************************************)
C6_ReturnedListIsACopy ==
    [][ /\ (CallerModify => LogView' = LogView)
        /\ ((\E w \in Writers : LogEvent_Append(w) \/ LogEvent_Trim(w))
               => ResultView' = ResultView) ]_vars

\* the caller wrote into its list, events were logged after it was
\* returned, and the log is intact
C6_Witness ==
    /\ tampered
    /\ Len(recorded) > snapAt
    /\ snapAt > 0
    /\ LogView = LastN(recorded, el.maxSize)
    /\ Tampered \in {ResultView[i] : i \in 1..Len(ResultView)}

(***************************************************************************)
(* SESSION (components/DynamicLoginGate.tsx, api/neurogateAPI.ts) and the  *)
(* backend's router (main.go).  An async handler is split at its await:    *)
(* the part up to sending the request, and the part that resumes with the  *)
(* response or the thrown error.  React applies the state updates of one   *)
(* part together.  The form's controls exist only in the step that renders *)
(* them and are disabled while loading.                                    *)
(***************************************************************************)
MaxLogins == 3

Usernames == {"", " ", "alice"}
Passwords == {"", "pw"}
OtpInputs == {<<>>, <<" ">>, <<"1", "2", "3">>, <<"1", "2", "3", "4">>,
              <<"a", "b", "c", "d">>}

\* String.prototype.trim on the strings of Usernames and Passwords
trim(str) == IF str = " " THEN "" ELSE str

\* String.prototype.trim on a code given as its characters
RECURSIVE trimChars(_)
trimChars(cs) ==
    IF cs = <<>> THEN cs
    ELSE IF Head(cs) = " " THEN trimChars(Tail(cs))
    ELSE IF cs[Len(cs)] = " " THEN trimChars(SubSeq(cs, 1, Len(cs) - 1))
    ELSE cs

toUpperCase(cs) ==
    [i \in 1..Len(cs) |->
        CASE cs[i] = "a" -> "A" [] cs[i] = "b" -> "B"
          [] cs[i] = "c" -> "C" [] cs[i] = "d" -> "D" [] OTHER -> cs[i]]

\* three snapshots getTelemetry may return: scores 90, 55 and 0
SessionTelemetries ==
    {Telemetry(<<50, 100, 200, 50, 200>>, <<90, 110, 100, 100>>, KeySeq(3),
               Path(5, 10, 0, 0), 85, 2000),
     Telemetry(<<90, 110, 90, 110>>, <<90, 110, 100, 100>>, KeySeq(3),
               Path(5, 10, 0, 0), 40, 2000),
     Telemetry(<<100, 100, 100>>, <<45, 45, 45>>, KeySeq(2),
               Path(0, 10, 0, 0), 15, 1200)}

\* NeuroGateAPI.baseURL without scheme and host, as path segments
baseURL == <<"api", "v1">>

Request(method, path, body, caller) ==
    [phase |-> "request", method |-> method, url |-> baseURL \o path,
     body |-> body, caller |-> caller]

Response(status, data, message, caller) ==
    [phase |-> "response", status |-> status, data |-> data,
     message |-> message, caller |-> caller]

\* NeuroGateAPI.verifyBehavior: the POST it sends
verifyBehavior(userId, data) ==
    Request("POST", <<"verify">>, [userId |-> userId, telemetry |-> data],
            "verifyBehavior")

\* NeuroGateAPI.submitChallenge: the POST it sends
submitChallenge(userId, success) ==
    Request("POST", <<"challenge", "submit">>, [userId |-> userId, success |-> success],
            "submitChallenge")

\* the routes main registers; any other request gets gin's 404
Route(method, url) ==
    CASE method = "GET"  /\ url = <<"api", "v1", "health">>           -> "HealthHandler"
      [] method = "POST" /\ url = <<"api", "v1", "verify">>           -> "VerifyBehaviorHandler"
      [] method = "POST" /\ url = <<"api", "v1", "challenge">>        -> "SubmitChallengeHandler"
      [] method = "GET"  /\ url = <<"api", "v1", "admin", "events">>  -> "GetEventsHandler"
      [] method = "GET"  /\ url = <<>>                                -> "Root"
      [] OTHER -> "404"

\* ShouldBindJSON: userId carries binding:"required"
Binds(body) == body.userId # ""

\* axios rejects a response outside 2xx; handleAxiosError takes the body's
\* message field or, as here where the bodies have none, error.message
AxiosMessage(status) ==
    CASE status = 400 -> "Request failed with status code 400"
      [] status = 404 -> "Request failed with status code 404"
      [] OTHER -> "Network Error"

\* SubmitChallengeHandler, lines 359-375
SubmitChallengeOutcome(body) ==
    IF body.success
    THEN [status |-> "accepted", message |-> "Challenge verified successfully"]
    ELSE [status |-> "rejected", message |-> "Challenge verification failed"]

\* faulty variant: the branches exchanged
NextStepAfterVerify_Flipped(response) ==
    IF response.requiresChallenge THEN "success" ELSE "challenge"

\* handleLoginSubmit, lines 84-92
NextStepAfterVerify(response) ==
    IF ~response.requiresChallenge THEN "success" ELSE "challenge"

\* faulty variant: a failed challenge returns to the login form by itself
NextStepAfterChallenge_AutoRetry(r) ==
    IF r.status = 200 /\ r.data.status = "accepted" THEN "success" ELSE "login"

\* handleChallengeSubmit, lines 129-141: the step set for a response r
NextStepAfterChallenge(r) ==
    IF r.status = 200 /\ r.data.status = "accepted" THEN "success" ELSE "error"

\* faulty variant: six characters required, as the placeholder suggests
OtpError_SixDigits(otp) ==
    IF trimChars(otp) = <<>> THEN "OTP is required"
    ELSE IF Len(otp) < 6 THEN "OTP must be at least 4 characters"
    ELSE NoError

\* handleChallengeSubmit, lines 113-123: the validation message, if any
OtpError(otp) ==
    IF trimChars(otp) = <<>> THEN "OTP is required"
    ELSE IF Len(otp) < 4 THEN "OTP must be at least 4 characters"
    ELSE NoError

Move(from, to, via) == [from |-> from, to |-> to, via |-> via]

\* faulty variant: every form is on the page whatever the step
Rendered_Always(s) == TRUE

\* the render of DynamicLoginGate, lines 320-323: the form of step s, and
\* with it its inputs and buttons, is on the page only while step is s
Rendered(s) == step = s

InitSession ==
    LogAtBoot /\ ConcAtRest /\ RiskAtRest /\ SessAtRest /\ PhysAtRest /\ OthersAtRest

setUsername ==
    /\ Rendered("login") /\ ~loading
    /\ \E u \in Usernames : form' = [form EXCEPT !.username = u]
    /\ UNCHANGED <<step, loading, error, riskResponse, userIdRef, telemetryRef, net,
                   sessEvents, lastMove, logVars, concVars, riskVars, physVars, backVars, hookVars, gcVars>>

setPassword ==
    /\ Rendered("login") /\ ~loading
    /\ \E pw \in Passwords : form' = [form EXCEPT !.password = pw]
    /\ UNCHANGED <<step, loading, error, riskResponse, userIdRef, telemetryRef, net,
                   sessEvents, lastMove, logVars, concVars, riskVars, physVars, backVars, hookVars, gcVars>>

setOtp ==
    /\ Rendered("challenge") /\ ~loading
    /\ \E o \in OtpInputs : form' = [form EXCEPT !.otp = toUpperCase(o)]
    /\ UNCHANGED <<step, loading, error, riskResponse, userIdRef, telemetryRef, net,
                   sessEvents, lastMove, logVars, concVars, riskVars, physVars, backVars, hookVars, gcVars>>

\* handleLoginSubmit up to `await neuroGateAPI.verifyBehavior(...)`
handleLoginSubmit ==
    /\ Rendered("login") /\ ~loading
    /\ IF trim(form.username) = "" \/ trim(form.password) = ""
       THEN /\ error' = "Username and password are required"
            /\ loading' = FALSE
            /\ UNCHANGED <<telemetryRef, userIdRef, net>>
       ELSE /\ Len(recorded) < MaxLogins
            /\ \E telemetry \in SessionTelemetries :
                  /\ telemetryRef' = telemetry
                  /\ net' = verifyBehavior(form.username, telemetry)
            /\ userIdRef' = form.username
            /\ error' = NoError
            /\ loading' = TRUE
    /\ UNCHANGED <<step, riskResponse, form, sessEvents, lastMove,
                   logVars, concVars, riskVars, physVars, backVars, hookVars, gcVars>>

\* handleLoginSubmit from the await on: the response, or the catch block
handleLoginSubmit_Resume ==
    /\ net.phase = "response" /\ net.caller = "verifyBehavior"
    /\ IF net.status = 200
       THEN /\ riskResponse' = net.data
            /\ step' = NextStepAfterVerify(net.data)
            /\ error' = error
       ELSE /\ error' = net.message
            /\ step' = "error"
            /\ riskResponse' = riskResponse
    /\ loading' = FALSE
    /\ net' = NoNet
    /\ lastMove' = Move(step, step', "handleLoginSubmit")
    /\ UNCHANGED <<form, userIdRef, telemetryRef, sessEvents, logVars, concVars, riskVars, physVars, backVars, hookVars, gcVars>>

\* faulty variant: the result reported depends on the code entered
handleChallengeSubmit_Verifying ==
    /\ Rendered("challenge") /\ ~loading
    /\ IF OtpError(form.otp) # NoError
       THEN /\ error' = OtpError(form.otp)
            /\ loading' = FALSE
            /\ net' = net
       ELSE /\ net' = submitChallenge(userIdRef, form.otp = <<"1", "2", "3", "4">>)
            /\ error' = NoError
            /\ loading' = TRUE
    /\ UNCHANGED <<step, riskResponse, form, userIdRef, telemetryRef, sessEvents,
                   lastMove, logVars, concVars, riskVars, physVars, backVars, hookVars, gcVars>>

\* handleChallengeSubmit up to `await neuroGateAPI.submitChallenge(...)`
handleChallengeSubmit ==
    /\ Rendered("challenge") /\ ~loading
    /\ IF OtpError(form.otp) # NoError
       THEN /\ error' = OtpError(form.otp)
            /\ loading' = FALSE
            /\ net' = net
       ELSE /\ net' = submitChallenge(userIdRef, TRUE)
            /\ error' = NoError
            /\ loading' = TRUE
    /\ UNCHANGED <<step, riskResponse, form, userIdRef, telemetryRef, sessEvents,
                   lastMove, logVars, concVars, riskVars, physVars, backVars, hookVars, gcVars>>

\* handleChallengeSubmit from the await on
handleChallengeSubmit_Resume ==
    /\ net.phase = "response" /\ net.caller = "submitChallenge"
    /\ step' = NextStepAfterChallenge(net)
    /\ error' = IF net.status # 200 THEN net.message
                ELSE IF net.data.status = "accepted" THEN error
                ELSE net.data.message
    /\ loading' = FALSE
    /\ net' = NoNet
    /\ lastMove' = Move(step, step', "handleChallengeSubmit")
    /\ UNCHANGED <<riskResponse, form, userIdRef, telemetryRef, sessEvents,
                   logVars, concVars, riskVars, physVars, backVars, hookVars, gcVars>>

\* handleReset: "Back to Login" (disabled while loading), "New Login
\* Session", "Try Again"
handleReset ==
    /\ (Rendered("challenge") \/ Rendered("success") \/ Rendered("error")) /\ ~loading
    /\ form' = [username |-> "", password |-> "", otp |-> <<>>]
    /\ step' = "login"
    /\ error' = NoError
    /\ riskResponse' = NoRisk
    /\ telemetryRef' = NoReq.telemetry
    /\ userIdRef' = ""
    /\ sessEvents' = <<>>
    /\ lastMove' = Move(step, "login", "handleReset")
    /\ UNCHANGED <<loading, net, logVars, concVars, riskVars, physVars, backVars, hookVars, gcVars>>

\* the backend serves the request in flight: gin's router, then the handler
ServeRequest ==
    /\ net.phase = "request"
    /\ LET handler == Route(net.method, net.url)
           o == VerifyOutcome(net.body)
           e == [o.event EXCEPT !.seq = Len(recorded) + 1]
           l == LogEvent(el, heap, e, result)
       IN  IF handler = "VerifyBehaviorHandler" /\ Binds(net.body)
           THEN /\ el' = l.el
                /\ heap' = l.heap
                /\ recorded' = Append(recorded, e)
                /\ sessEvents' = Append(sessEvents, e)
                /\ net' = Response(200, o.response, "", net.caller)
           ELSE /\ UNCHANGED <<logVars, sessEvents>>
                /\ net' = IF handler = "404"
                          THEN Response(404, "404 page not found", AxiosMessage(404), net.caller)
                          ELSE IF ~Binds(net.body)
                          THEN Response(400, "Invalid request format", AxiosMessage(400), net.caller)
                          ELSE Response(200, SubmitChallengeOutcome(net.body), "", net.caller)
    /\ UNCHANGED <<step, loading, error, riskResponse, form, userIdRef, telemetryRef,
                   lastMove, concVars, riskVars, physVars, backVars, hookVars, gcVars>>

\* the request or its response is lost, or the 10 s timeout of the axios
\* client expires: axios rejects without a response
NetworkError ==
    /\ net.phase = "request" \/ (net.phase = "response" /\ net.status # 0)
    /\ net' = Response(0, "", AxiosMessage(0), net.caller)
    /\ UNCHANGED <<step, loading, error, riskResponse, form, userIdRef, telemetryRef,
                   sessEvents, lastMove, logVars, concVars, riskVars, physVars, backVars, hookVars, gcVars>>

NextSession ==
    \/ setUsername
    \/ setPassword
    \/ setOtp
    \/ handleLoginSubmit
    \/ handleLoginSubmit_Resume
    \/ handleChallengeSubmit
    \/ handleChallengeSubmit_Resume
    \/ handleReset
    \/ ServeRequest
    \/ NetworkError

SpecSession == InitSession /\ [][NextSession]_vars

\* the same session over a transport that delivers every request and
\* every response
NextSessionReliable ==
    \/ setUsername
    \/ setPassword
    \/ setOtp
    \/ handleLoginSubmit
    \/ handleLoginSubmit_Resume
    \/ handleChallengeSubmit
    \/ handleChallengeSubmit_Resume
    \/ handleReset
    \/ ServeRequest

SpecSessionReliable == InitSession /\ [][NextSessionReliable]_vars

Terminal == {"success", "error"}

(***************************************************************************)
(* C7 (as amended): the step starts at login and, apart from handleReset,  *)
(* moves only login->success, login->challenge, login->error (the verify   *)
(* request failed), challenge->success and challenge->error; nothing but   *)
(* handleReset leaves success or error                                     *)
(***************************************************************************)
MovesOfClaim == {<<"login", "success">>, <<"login", "challenge">>,
                 <<"challenge", "success">>, <<"challenge", "error">>}

C7_MovesWithLoginError ==
    /\ step = "login"
    /\ [][ step' # step =>
             \/ <<step, step'>> \in MovesOfClaim \cup {<<"login", "error">>}
             \/ handleReset /\ step' = "login" ]_vars

\* C7 as claimed: the four moves only
C7_MovesAsClaimed ==
    /\ step = "login"
    /\ [][ step' # step =>
             \/ <<step, step'>> \in MovesOfClaim
             \/ handleReset /\ step' = "login" ]_vars

\* the catch block of handleLoginSubmit took the step from login to error
C7_Witness ==
    /\ step = "error"
    /\ lastMove = Move("login", "error", "handleLoginSubmit")
    /\ error = AxiosMessage(0)

(***************************************************************************)
(* C8: a verify response without requiresChallenge takes the step from     *)
(* login straight to success, one with requiresChallenge takes it to       *)
(* challenge; the step never goes from login to success otherwise          *)
(***************************************************************************)
C8_VerifyResponseDecidesStep ==
    [][ /\ (handleLoginSubmit_Resume /\ net.status = 200) =>
              /\ step = "login"
              /\ net.data.requiresChallenge => step' = "challenge"
              /\ ~net.data.requiresChallenge => step' = "success"
        /\ (step = "login" /\ step' = "success") =>
              /\ net.phase = "response" /\ net.status = 200
              /\ ~net.data.requiresChallenge ]_vars

\* both branches were taken: a session went straight to success, and the
\* current one was sent to the challenge
C8_Witness ==
    /\ step = "challenge"
    /\ lastMove = Move("login", "challenge", "handleLoginSubmit")
    /\ riskResponse.status = 200 /\ riskResponse.requiresChallenge
    /\ \E i \in 1..Len(recorded) : recorded[i].status = "success"

(***************************************************************************)
(* C9 (as amended): from challenge an accepted response moves the step to  *)
(* success, a rejected response or a failed request moves it to error; an  *)
(* empty code or one shorter than 4 characters leaves the step at          *)
(* challenge with an error message and sends nothing; the step leaves      *)
(* error only by handleReset, to login                                     *)
(***************************************************************************)
InvalidCode(otp) == trimChars(otp) = <<>> \/ Len(otp) < 4

C9_ChallengeOutcomes ==
    [][ /\ handleChallengeSubmit_Resume =>
              /\ step = "challenge"
              /\ step' = IF net.status = 200 /\ net.data.status = "accepted"
                         THEN "success" ELSE "error"
        /\ (handleChallengeSubmit /\ InvalidCode(form.otp)) =>
              /\ step' = "challenge"
              /\ error' # NoError
              /\ net'.phase = "idle"
        /\ (handleChallengeSubmit /\ ~InvalidCode(form.otp)) =>
              /\ step' = "challenge"
              /\ net'.phase = "request"
        /\ (step = "error" /\ step' # "error") => (handleReset /\ step' = "login") ]_vars

\* C9 as claimed: a validation failure moves the step to error
C9_AsClaimed ==
    [][ /\ handleChallengeSubmit_Resume =>
              /\ step = "challenge"
              /\ step' = IF net.status = 200 /\ net.data.status = "accepted"
                         THEN "success" ELSE "error"
        /\ (handleChallengeSubmit /\ InvalidCode(form.otp)) => step' = "error"
        /\ (step = "error" /\ step' # "error") => (handleReset /\ step' = "login") ]_vars

\* a three-character code was submitted and the step is still challenge
C9_Witness ==
    /\ step = "challenge"
    /\ form.otp = <<"1", "2", "3">>
    /\ error = "OTP must be at least 4 characters"
    /\ ~loading
    /\ net.phase = "idle"

(***************************************************************************)
(* C10: a session in a terminal step has exactly one event in the audit    *)
(* log, with the outcome of the branch taken (success when it went         *)
(* straight to success, challenged when it passed the challenge, blocked   *)
(* when it ended in error) and the trust score of its verify response      *)
(***************************************************************************)
OutcomeOfBranch ==
    IF step = "error" THEN "blocked"
    ELSE IF lastMove.from = "login" THEN "success" ELSE "challenged"

C10_OneEventPerTerminalStep ==
    step \in Terminal =>
        /\ Len(sessEvents) = 1
        /\ sessEvents[1].status = OutcomeOfBranch
        /\ riskResponse.status = 200
        /\ sessEvents[1].trustScore = riskResponse.trustScore

(***************************************************************************)
(* C11: within one session the order score -> challenge -> terminal        *)
(* outcome is enforced: the step becomes challenge only on receiving a     *)
(* verify response that carries the score of the session's telemetry, a    *)
(* challenge submission is sent only while the step is challenge, and a    *)
(* terminal step that follows the challenge is set only on receiving the   *)
(* challenge response or its failure                                       *)
(***************************************************************************)
ChallengeSent == net.phase = "request" /\ net.caller = "submitChallenge"

C11_CausalOrder ==
    [][ /\ (step # "challenge" /\ step' = "challenge") =>
              /\ step = "login"
              /\ net.phase = "response" /\ net.caller = "verifyBehavior"
              /\ net.status = 200
              /\ net.data.trustScore = CalculateRisk(telemetryRef)
              /\ riskResponse' = net.data
              /\ sessEvents # <<>>
              /\ sessEvents[Len(sessEvents)].trustScore = net.data.trustScore
        /\ (~ChallengeSent /\ ChallengeSent') =>
              /\ step = "challenge" /\ step' = "challenge"
              /\ riskResponse.status = 200
              /\ net'.body.userId = userIdRef
        /\ (step = "challenge" /\ step' \in Terminal) =>
              /\ net.phase = "response" /\ net.caller = "submitChallenge"
              /\ net' = NoNet ]_vars

\* a session that was scored, challenged, and ended on the failure of its
\* challenge submission
C11_Witness ==
    /\ step = "error"
    /\ lastMove = Move("challenge", "error", "handleChallengeSubmit")
    /\ riskResponse.status = 200
    /\ riskResponse.trustScore = CalculateRisk(telemetryRef)
    /\ riskResponse.requiresChallenge
    /\ form.otp = <<"1", "2", "3", "4">>

(***************************************************************************)
(* C12: a challenge submission sent by submitChallenge is served by the    *)
(* backend's challenge handler: the request's path is the route main       *)
(* registers for SubmitChallengeHandler, and a submission with success =   *)
(* true is answered 200 with status accepted, which takes the step from    *)
(* challenge to success                                                    *)
(***************************************************************************)
C12_SubmissionIsServed ==
    /\ ChallengeSent => Route(net.method, net.url) = "SubmitChallengeHandler"
    /\ (net.phase = "response" /\ net.caller = "submitChallenge") =>
           /\ net.status = 200
           /\ net.data.status = "accepted"
    /\ lastMove.via = "handleChallengeSubmit" => lastMove.to = "success"

(***************************************************************************)
(* SpecPhysics: one movement trace, classified by analyzePhysics (called   *)
(* by handleComplete on the recorded movement history)                     *)
(***************************************************************************)
InitPhysics ==
    /\ points \in MovementTraces
    /\ analysis = NoAnalysis
    /\ LogAtBoot
    /\ ConcAtRest
    /\ RiskAtRest
    /\ SessAtRest
    /\ OthersAtRest

Analyze ==
    /\ analysis = NoAnalysis
    /\ analysis' = analyzePhysics(points)
    /\ UNCHANGED <<points, riskVars, logVars, concVars, sessVars, backVars, hookVars, gcVars>>

NextPhysics == Analyze

SpecPhysics == InitPhysics /\ [][NextPhysics]_vars

Analyzed == analysis # NoAnalysis

(***************************************************************************)
(* C13: a trace with fewer than 15 samples, the empty trace included, is   *)
(* answered isHuman = false, confidence = 0, the insufficient-samples      *)
(* reason alone, and empty velocities and accelerations: none of the five  *)
(* checks is applied                                                       *)
(***************************************************************************)
C13_FewSamplesFailClosed ==
    (Analyzed /\ Len(points) < 15) =>
        analysis = [isHuman |-> FALSE, confidence |-> 0,
                    reasons |-> <<"insufficient movement samples">>,
                    velocities |-> <<>>, accelerations |-> <<>>]

\* 14 samples of a wandering path, which with 15 samples counts as human
C13_Witness ==
    /\ Analyzed
    /\ Len(points) = 14
    /\ Len(FiniteMoves(points)) = 13
    /\ 5 * directionChanges(points) > Len(points)
    /\ analysis.confidence = 0
    /\ ~analysis.isHuman
    /\ Len(analysis.reasons) = 1

(***************************************************************************)
(* C14: for a trace of at least 15 samples the confidence returned lies in *)
(* [0,1] and isHuman is true exactly when that confidence is above 0.4     *)
(***************************************************************************)
C14_ConfidenceClampedAndDecides ==
    (Analyzed /\ Len(points) >= 15) =>
        /\ analysis.confidence \in 0..20
        /\ analysis.isHuman = (analysis.confidence > 8)

\* the sum of the start value and the five adjustments, before the clamp
RawConfidence(pts) ==
    10 + InstantMovementCheck(pts).delta + VelocityCheck(pts).delta
       + LinearityCheck(pts).delta + AccelerationCheck(pts).delta
       + DirectionCheck(pts).delta

\* a sum of 1.25 returned as 1
C14_WitnessHigh ==
    /\ Analyzed
    /\ Len(points) >= 15
    /\ RawConfidence(points) = 25
    /\ analysis.confidence = 20
    /\ analysis.isHuman

(***************************************************************************)
(* C15: a trace of 20 points on a straight line, traversed at constant     *)
(* velocity with non-zero, not necessarily equal, time gaps is measured    *)
(* with linearity above 0.95 and an acceleration deviation of 0, gets a    *)
(* confidence of at most 0.4 and isHuman = false                           *)
(***************************************************************************)
\* every gap is non-zero and every move is the first move scaled by the
\* ratio of the gaps: one velocity vector throughout
StraightConstantVelocity(pts) ==
    LET dt(i) == pts[i + 1].timestamp - pts[i].timestamp
        dx(i) == pts[i + 1].x - pts[i].x
        dy(i) == pts[i + 1].y - pts[i].y
    IN  /\ dx(1) # 0 \/ dy(1) # 0
        /\ \A i \in 1..(Len(pts) - 1) :
              /\ dt(i) > 0
              /\ dx(i) * dt(1) = dx(1) * dt(i)
              /\ dy(i) * dt(1) = dy(1) * dt(i)

C15_ConstantVelocityIsBot ==
    (Analyzed /\ Len(points) = 20 /\ StraightConstantVelocity(points)) =>
        /\ LinearityAboveThreshold(measureLinearity(points))
        /\ AccelVariance(analysis.accelerations, VelScale(points)).num = 0
        /\ analysis.confidence <= 8
        /\ ~analysis.isHuman

(***************************************************************************)
(* C16 (as amended): a trace of 20 points whose accelerations have a       *)
(* standard deviation above 0.05 and which reverses direction at least 5   *)
(* times gets a confidence above 0.4 and isHuman = true whatever the       *)
(* linearity check finds, provided its first two samples do not share a    *)
(* timestamp and none of its velocities is above 500 px/ms                 *)
(***************************************************************************)
\* inner samples at which the path turns back: negative dot product
Reversals(pts) ==
    Cardinality({i \in 2..(Len(pts) - 1) :
        (pts[i].x - pts[i - 1].x) * (pts[i + 1].x - pts[i].x)
          + (pts[i].y - pts[i - 1].y) * (pts[i + 1].y - pts[i].y) < 0})

JitterAndReversals(pts) ==
    /\ Len(pts) = 20
    /\ Len(FiniteMoves(pts)) > 1
    /\ StdDevAbove(AccelVariance(calculateAccelerations(Velocities(pts)), VelScale(pts)), 20)
    /\ Reversals(pts) >= 5

NaturalLogin(t) ==
    /\ t.entropyScore = 85
    /\ Len(t.keystrokeDynamics.flightTimes) >= 3
    /\ FracGT(PopVariance(t.keystrokeDynamics.flightTimes), 1000)
    /\ t.sessionDuration = 8500
    /\ Len(t.mousePath) = 150

AllEqual(s) == \A i \in 1..Len(s) : s[i] = s[1]

SuspiciousBot(t) ==
    /\ t.entropyScore = 15
    /\ Len(t.keystrokeDynamics.flightTimes) = 5
    /\ AllEqual(t.keystrokeDynamics.flightTimes)
    /\ Len(t.keystrokeDynamics.dwellTimes) = 5
    /\ AllEqual(t.keystrokeDynamics.dwellTimes)
    /\ t.sessionDuration = 1200
    /\ t.mousePath = <<>>

C18_SuspiciousBotScoresZero ==
    (resp.status = 200 /\ SuspiciousBot(req.telemetry)) =>
        /\ resp.trustScore = 0
        /\ resp.requiresChallenge
        /\ LoggedEvent.trustScore = 0

\* README Test Case 2 with its four keys: the sum is -60, the score 0
C18_Witness ==
    /\ resp.status = 200
    /\ SuspiciousBot(req.telemetry)
    /\ Len(req.telemetry.keystrokeDynamics.keys) = 4
    /\ req.telemetry.keystrokeDynamics.flightTimes = <<100, 100, 100, 100, 100>>
    /\ req.telemetry.keystrokeDynamics.dwellTimes = <<50, 50, 50, 50, 50>>
    /\ TabSum(req.telemetry) = -60
    /\ resp.trustScore = 0
    /\ resp.requiresChallenge

(***************************************************************************)
(* C19: the verify request of README Test Case 1 is answered with          *)
(* trustScore 95 and requiresChallenge = false                             *)
(***************************************************************************)
C19_ReadmeCase1Scores95 ==
    (resp.status = 200 /\ req.telemetry = ReadmeTestCase1) =>
        /\ resp.trustScore = 95
        /\ ~resp.requiresChallenge

(***************************************************************************)
(* C20: a variance-based factor without enough data for a variance (fewer  *)
(* than 3 flight times, fewer than 3 dwell times, a pointer path that      *)
(* yields fewer than 2 accelerations because samples share a timestamp)    *)
(* adjusts the score by nothing                                            *)
(***************************************************************************)
FewAccelerations(t) == Len(t.mousePath) < 3 \/ Len(accelerations(t.mousePath)) < 2

NeutralSum(t) ==
    50 + TabEntropy(t)
       + (IF Len(t.keystrokeDynamics.flightTimes) < 3 THEN 0 ELSE TabFlight(t))
       + (IF Len(t.keystrokeDynamics.dwellTimes) < 3 THEN 0 ELSE TabDwell(t))
       + TabSession(t)
       + (IF FewAccelerations(t) THEN 0 ELSE TabPointerAccel(t))
       + TabKeyCount(t) + TabPointerCount(t)

C20_InsufficientDataIsNeutral ==
    resp.status = 200 =>
        /\ resp.trustScore = Clamp(NeutralSum(req.telemetry), 0, 100)
        /\ FewAccelerations(req.telemetry) =>
               MouseMovementAnalysis(req.telemetry, 50) = 50

(***************************************************************************)
(* C30: a snapshot whose entropyScore is below 40 scores at most 45        *)
(* whatever the other six factors contribute, so it requires a challenge   *)
(* and its event is logged as challenged                                   *)
(***************************************************************************)
C30_LowEntropyIsChallenged ==
    (resp.status = 200 /\ req.telemetry.entropyScore < 40) =>
        /\ resp.trustScore <= 45
        /\ resp.requiresChallenge
        /\ LoggedEvent.trustScore = resp.trustScore
        /\ LoggedEvent.status = "challenged"

\* entropy 39 with every other factor at its best: 50 - 35 + 15 + 10 + 5
C30_Witness ==
    /\ resp.status = 200
    /\ req.telemetry.entropyScore = 39
    /\ TabFlight(req.telemetry) = 15
    /\ TabPointerAccel(req.telemetry) = 10
    /\ TabPointerCount(req.telemetry) = 5
    /\ resp.trustScore = 45
    /\ resp.requiresChallenge

(***************************************************************************)
(* C27: a trace of at least 15 samples that all carry one timestamp (every *)
(* gap is 0 ms) is never classified as human, whatever its path            *)
(***************************************************************************)
OneTimestamp(pts) == \A i \in 1..Len(pts) : pts[i].timestamp = pts[1].timestamp

C27_OneTimestampIsNeverHuman ==
    (Analyzed /\ Len(points) >= MIN_SAMPLES /\ OneTimestamp(points)) =>
        ~analysis.isHuman

(***************************************************************************)
(* C28: the outcome of the one-time-code challenge does not depend on the  *)
(* content of the code: whenever a challenge request is sent, the code has *)
(* at least 4 characters and the request is the POST of the user and       *)
(* success = true, with nothing taken from the code; and the step set on   *)
(* the response is decided by the response alone                           *)
(***************************************************************************)
ChallengeBeingSent ==
    net.phase = "idle" /\ net'.phase = "request" /\ net'.caller = "submitChallenge"

ChallengeBeingResumed ==
    net.phase = "response" /\ net.caller = "submitChallenge" /\ net'.phase = "idle"

MaxRequests == 3
MaxClock    == 1

\* a body that is not JSON
MalformedJSON == [syntax |-> "malformed"]

BackendTelemetries ==
    {Telemetry(<<50, 100, 200, 50, 200>>, <<90, 110, 100, 100>>, KeySeq(3),
               Path(5, 10, 0, 0), 85, 2000),
     Telemetry(<<100, 100, 100>>, <<45, 45, 45>>, KeySeq(2),
               Path(0, 10, 0, 0), 15, 1200)}

\* the bodies posted: every snapshot for alice, one of them for bob too, one
\* without userId, and one that is not JSON
VerifyBodies ==
    {[userId |-> "alice", telemetry |-> t] : t \in BackendTelemetries}
    \cup {[userId |-> u, telemetry |-> CHOOSE t \in BackendTelemetries : t.entropyScore = 85] :
             u \in {"bob", ""}}
    \cup {MalformedJSON}

\* c.ShouldBindJSON(&req): the body parses and userId is not empty
ShouldBindJSON(body) == body # MalformedJSON /\ Binds(body)

BadRequest == [status |-> 400, error |-> "Invalid request format"]

Answer(request, response) == [request |-> request, response |-> response]

\* requests taken up and not yet answered, and those answered
Started == Len(answers) + Cardinality({g \in Writers : hresp[g] # NoResp})

InitBackend ==
    LogAtBoot /\ ConcAtRest /\ RiskAtRest /\ SessAtRest /\ PhysAtRest /\ OthersAtRest

\* faulty variant: no return after the 400, the zero request is scored
Verify_Build_NoReturn(w) ==
    /\ wpc[w] = "idle" /\ hresp[w] = NoResp
    /\ Started < MaxRequests
    /\ \E body \in VerifyBodies :
          IF ~ShouldBindJSON(body)
          THEN /\ answers' = Append(answers, Answer(body, BadRequest))
               /\ hreq' = [hreq EXCEPT ![w] = NoReq]
               /\ hresp' = [hresp EXCEPT ![w] = VerifyOutcome(NoReq).response]
               /\ wev' = [wev EXCEPT ![w] = VerifyOutcome(NoReq).event]
               /\ wpc' = [wpc EXCEPT ![w] = "built"]
          ELSE /\ hreq' = [hreq EXCEPT ![w] = body]
               /\ hresp' = [hresp EXCEPT ![w] = VerifyOutcome(body).response]
               /\ wev' = [wev EXCEPT ![w] = VerifyOutcome(body).event]
               /\ wpc' = [wpc EXCEPT ![w] = "built"]
               /\ answers' = answers
    /\ UNCHANGED <<clock, mu, rpc, result, tampered, snapAt, logVars, riskVars,
                   sessVars, physVars, hookVars, gcVars>>

\* VerifyBehaviorHandler up to the call of LogEvent, lines 288-316: a body
\* that does not bind is answered with 400 at once
Verify_Build(w) ==
    /\ wpc[w] = "idle" /\ hresp[w] = NoResp
    /\ Started < MaxRequests
    /\ \E body \in VerifyBodies :
          IF ~ShouldBindJSON(body)
          THEN /\ answers' = Append(answers, Answer(body, BadRequest))
               /\ UNCHANGED <<hreq, hresp, wev, wpc>>
          ELSE /\ hreq' = [hreq EXCEPT ![w] = body]
               /\ hresp' = [hresp EXCEPT ![w] = VerifyOutcome(body).response]
               /\ wev' = [wev EXCEPT ![w] = VerifyOutcome(body).event]
               /\ wpc' = [wpc EXCEPT ![w] = "built"]
               /\ answers' = answers
    /\ UNCHANGED <<clock, mu, rpc, result, tampered, snapAt, logVars, riskVars,
                   sessVars, physVars, hookVars, gcVars>>

\* eventLog.LogEvent(event): el.mu.Lock()
Verify_LogEvent(w) ==
    /\ wpc[w] = "built"
    /\ TryLock(w)
    /\ mu' = w
    /\ wpc' = [wpc EXCEPT ![w] = "append"]
    /\ UNCHANGED <<wev, rpc, result, tampered, snapAt, logVars, riskVars, sessVars,
                   physVars, backVars, hookVars, gcVars>>

\* c.JSON(http.StatusOK, response), after LogEvent has returned
Verify_Respond(w) ==
    /\ wpc[w] = "idle" /\ hresp[w] # NoResp
    /\ answers' = Append(answers, Answer(hreq[w], hresp[w]))
    /\ hreq' = [hreq EXCEPT ![w] = NoReq]
    /\ hresp' = [hresp EXCEPT ![w] = NoResp]
    /\ UNCHANGED <<clock, concVars, logVars, riskVars, sessVars, physVars, hookVars, gcVars>>

\* a second passes
Tick ==
    /\ clock < MaxClock
    /\ clock' = clock + 1
    /\ UNCHANGED <<hreq, hresp, answers, concVars, logVars, riskVars, sessVars,
                   physVars, hookVars, gcVars>>

NextBackend ==
    \/ \E w \in Writers : Verify_Build(w)
    \/ \E w \in Writers : Verify_LogEvent(w)
    \/ \E w \in Writers : LogEvent_Append(w)
    \/ \E w \in Writers : LogEvent_Trim(w)
    \/ \E w \in Writers : LogEvent_Unlock(w)
    \/ \E w \in Writers : Verify_Respond(w)
    \/ GetEvents_Lock
    \/ GetEvents_Copy
    \/ GetEvents_Unlock
    \/ Tick

SpecBackend == InitBackend /\ [][NextBackend]_vars

(***************************************************************************)
(* C29: in every list GetEvents returns the timestamps do not increase     *)
(* from the first element to the last, also under concurrent requests      *)
(***************************************************************************)
C29_TimestampsNewestFirst ==
    (rpc \in {"unlock", "returned"}) =>
        \A i \in 1..Len(ResultView) : \A j \in i..Len(ResultView) :
            ResultView[i].timestamp >= ResultView[j].timestamp

(***************************************************************************)
(* C21: the scorer is stateless and deterministic: any two verify requests *)
(* carrying the same snapshot get the same trustScore and the same         *)
(* requiresChallenge, whoever sent them, whatever was served before or     *)
(* between them and whatever the log holds                                 *)
(***************************************************************************)
Scored(a) == a.response.status = 200

Answered == Len(answers') = Len(answers) + 1

C24_BadRequestHasNoEffect ==
    [][Answered =>
          LET a == answers'[Len(answers')]
          IN  /\ ShouldBindJSON(a.request) = (a.response.status = 200)
              /\ ~ShouldBindJSON(a.request) =>
                     /\ a.response = BadRequest
                     /\ DOMAIN a.response = {"status", "error"}
                     /\ UNCHANGED <<el, heap, recorded>>
                     /\ UNCHANGED <<wev, wpc, hreq, hresp, mu>>]_vars

\* a body that is not JSON and a body without userId have been answered
\* with 400, after a valid request was logged; the log holds that one event
C24_Witness ==
    /\ Len(answers) = 3
    /\ Scored(answers[1])
    /\ answers[2] = Answer(MalformedJSON, BadRequest)
    /\ answers[3].request # MalformedJSON
    /\ answers[3].request.userId = ""
    /\ answers[3].response = BadRequest
    /\ Len(recorded) = 1
    /\ LogView = recorded


(***************************************************************************)
(* useNeuroTelemetry: the hook that gathers keystroke and pointer          *)
(* telemetry (MVP_ARCHITECTURE_DIAGRAM.md, "useNeuroTelemetry.ts").        *)
(* Date.now() is the variable now; it starts at PageLoad, a positive       *)
(* number of ms as every reading of a browser clock is.                    *)
(***************************************************************************)
MaxKeys   == 2      \* key presses between two resets
MaxMoves  == 4      \* pointer samples between two resets
MaxTicks  == 2      \* ms that pass after the page has loaded
MaxResets == 1      \* resetTelemetry calls

PageLoad == 1000
Keys == {"a", "b"}
Held(key) == \E h \in keyboard : h.key = key

\* telemetryRef.current as useRef builds it and resetTelemetry rebuilds it
FreshTelemetryRef(currentTime) ==
    [keystrokeDynamics |-> [flightTimes |-> <<>>, dwellTimes |-> <<>>, keys |-> <<>>],
     mousePath |-> <<>>, lastKeyUpTime |-> 0, keyDownTime |-> 0,
     sessionStartTime |-> currentTime]

\* keydown listener: a key that is not held goes down
handleKeyDown(key) ==
    /\ ~Held(key)
    /\ Len(hookRef.keystrokeDynamics.keys) < MaxKeys
    /\ LET currentTime == now
           lastKeyUp   == hookRef.lastKeyUpTime
       IN  hookRef' = [hookRef EXCEPT
                !.keystrokeDynamics.flightTimes =
                    IF lastKeyUp > 0 THEN Append(@, currentTime - lastKeyUp) ELSE @,
                !.keystrokeDynamics.keys = Append(@, key),
                !.keyDownTime = currentTime]
    /\ presses' = Append(presses, [key |-> key, down |-> now, up |-> now, released |-> FALSE])
    /\ keyboard' = keyboard \cup {[key |-> key, press |-> Len(presses) + 1]}
    /\ UNCHANGED <<now, snapshot, resets, riskVars, logVars, concVars, sessVars,
                   physVars, backVars, gcVars>>

\* keyup listener: a held key h goes up (the listener does not read the event)
handleKeyUp(h) ==
    /\ h \in keyboard
    /\ LET currentTime == now
           keyDownTime == hookRef.keyDownTime
       IN  hookRef' = [hookRef EXCEPT
                !.keystrokeDynamics.dwellTimes =
                    IF keyDownTime > 0 THEN Append(@, currentTime - keyDownTime) ELSE @,
                !.lastKeyUpTime = currentTime]
    /\ presses' = IF h.press > 0 THEN [presses EXCEPT ![h.press].up = now, ![h.press].released = TRUE] ELSE presses
    /\ keyboard' = keyboard \ {h}
    /\ UNCHANGED <<now, snapshot, resets, riskVars, logVars, concVars, sessVars,
                   physVars, backVars, gcVars>>

\* resetTelemetry: a key held across the reset is no press of the new round
resetTelemetry ==
    /\ resets < MaxResets
    /\ hookRef' = FreshTelemetryRef(now)
    /\ presses' = <<>>
    /\ keyboard' = {[key |-> h.key, press |-> 0] : h \in keyboard}
    /\ resets' = resets + 1
    /\ UNCHANGED <<now, snapshot, riskVars, logVars, concVars, sessVars,
                   physVars, backVars, gcVars>>

\* a millisecond passes
Millisecond ==
    /\ now < PageLoad + MaxTicks
    /\ now' = now + 1
    /\ UNCHANGED <<hookRef, keyboard, presses, snapshot, resets, riskVars, logVars,
                   concVars, sessVars, physVars, backVars, gcVars>>


Max(a, b) == IF a > b THEN a ELSE b

\* what JavaScript yields for 0/0 and for Infinity - Infinity; no score equals it
NaN == -1000000

\* the time delta without its floor of 1 ms
TimeDelta_Unfloored(point1, point2) == point2.time - point1.time

\* Math.max(point2.time - point1.time, 1)
TimeDelta(point1, point2) == Max(point2.time - point1.time, 1)

\* ExpThreshold[k] is (50 * ln(100 / (100 - k)))^2 in 1/10000, rounded up:
\* 100 - Math.exp(-stdDev / 50) * 100 >= k exactly when stdDev^2 reaches it
ExpThreshold ==
    <<
       2526, 10204, 23195, 41661, 65776, 95715,
       131663, 173813, 222363, 277521, 339504, 408535,
       484849, 568689, 660311, 759978, 867968, 984570,
       1110084, 1244827, 1389126, 1543327, 1707789, 1882890,
       2069025, 2266607, 2476072, 2697874, 2932491, 3180426,
       3442207, 3718389, 4009558, 4316328, 4639349, 4979305,
       5336920, 5712956, 6108222, 6523571, 6959908, 7418193,
       7899442, 8404738, 8935227, 9492134, 10076761, 10690496,
       11334823, 12011326, 12721702, 13467769, 14251478, 15074925,
       15940364, 16850227, 17807137, 18813931, 19873681, 20989718,
       22165667, 23405472, 24713440, 26094282, 27553163, 29095758,
       30728321, 32457763, 34291740, 36238763, 38308324, 40511041,
       42858844, 45365186, 48045302, 50916528, 53998687, 57314570,
       60890535, 64757260, 68950704, 73513342, 78495777, 83958871,
       89976606, 96639995, 104062526, 112387937, 121801564, 132547453,
       144955052, 159482630, 176791599, 197881997, 224360297, 259029040,
       307398708, 382598100, 530189812 >>

RECURSIVE LCMOver(_, _)
LCMOver(s, n) == IF n = 0 THEN 1 ELSE LCM(LCMOver(s, n - 1), s[n])

\* calculateEntropyScore, in whole points (the floor of the number returned).
\* Velocities are kept as multiples of 1/scale px/ms, scale being the least
\* common multiple of the time deltas.  A time delta of 0 makes a velocity
\* Infinity or NaN, and either makes the variance, and so the result, NaN.
calculateEntropyScore(mousePath) ==
    IF Len(mousePath) < 3 THEN 50
    ELSE
    LET timeDelta == [i \in 1..(Len(mousePath) - 1) |->
                         TimeDelta(mousePath[i], mousePath[i + 1])]
    IN  IF \E i \in DOMAIN timeDelta : timeDelta[i] = 0 THEN NaN
        ELSE
        LET scale == LCMOver([i \in DOMAIN timeDelta |-> Abs(timeDelta[i])], Len(timeDelta))
            velX  == [i \in DOMAIN timeDelta |->
                         ((mousePath[i + 1].x - mousePath[i].x) * scale) \div timeDelta[i]]
            velY  == [i \in DOMAIN timeDelta |->
                         ((mousePath[i + 1].y - mousePath[i].y) * scale) \div timeDelta[i]]
            accelMagnitudes == [i \in 1..(Len(mousePath) - 2) |->
                         LET accelX == velX[i + 1] - velX[i]
                             accelY == velY[i + 1] - velY[i]
                         IN  Isqrt(accelX * accelX + accelY * accelY)]
            n     == Len(accelMagnitudes)
        IN  IF n = 0 THEN 50
            ELSE
            LET sum      == SumSeq(accelMagnitudes)
                \* variance = squares / (n^3 * scale^2), stdDev its square root
                squares  == SumSeq([i \in 1..n |->
                                (n * accelMagnitudes[i] - sum) * (n * accelMagnitudes[i] - sum)])
                variance == (squares * 10000) \div (n * n * n * scale * scale)
                entropyScore == Cardinality({k \in DOMAIN ExpThreshold :
                                                ExpThreshold[k] <= variance})
            IN  Min(100, Max(0, entropyScore))

PointerTargets == {<<0, 0>>, <<10, 0>>, <<20, 0>>}

\* mousemove listener
hook_handleMouseMove(clientX, clientY) ==
    /\ Len(hookRef.mousePath) < MaxMoves
    /\ LET currentTime == now
       IN  hookRef' = [hookRef EXCEPT
                !.mousePath = Append(@, [x |-> clientX, y |-> clientY, time |-> currentTime])]
    /\ UNCHANGED <<now, keyboard, presses, snapshot, resets, riskVars, logVars,
                   concVars, sessVars, physVars, backVars, gcVars>>

\* getTelemetry: the snapshot handed to the caller
getTelemetry ==
    /\ snapshot' =
         [keystrokeDynamics |-> hookRef.keystrokeDynamics,
          mousePath         |-> hookRef.mousePath,
          entropyScore      |-> calculateEntropyScore(hookRef.mousePath),
          sessionDuration   |-> now - hookRef.sessionStartTime,
          timestamp         |-> now]
    /\ UNCHANGED <<hookRef, now, keyboard, presses, resets, riskVars, logVars,
                   concVars, sessVars, physVars, backVars, gcVars>>

InitTelemetry ==
    /\ LogAtBoot /\ ConcAtRest /\ RiskAtRest /\ SessAtRest /\ PhysAtRest
    /\ BackAtRest /\ GcAtRest
    /\ now = PageLoad
    /\ hookRef = FreshTelemetryRef(now)
    /\ keyboard = {}
    /\ presses = <<>>
    /\ snapshot = NoSnapshot
    /\ resets = 0

\* the keyboard side of the hook
NextTelemetry ==
    \/ \E key \in Keys : handleKeyDown(key)
    \/ \E h \in keyboard : handleKeyUp(h)
    \/ resetTelemetry
    \/ Millisecond

SpecTelemetry == InitTelemetry /\ [][NextTelemetry]_vars

\* the pointer side of the hook
NextEntropy ==
    \/ \E p \in PointerTargets : hook_handleMouseMove(p[1], p[2])
    \/ getTelemetry
    \/ Millisecond

SpecEntropy == InitTelemetry /\ [][NextEntropy]_vars


(***************************************************************************)
(* C23: calculateEntropyScore returns the neutral 50 for a pointer path of *)
(* fewer than 3 samples, and for every other path a score in [0,100], also *)
(* when consecutive samples carry the same timestamp.                      *)
(***************************************************************************)
EqualTimestamps(mousePath) ==
    \E i \in 1..(Len(mousePath) - 1) : mousePath[i].time = mousePath[i + 1].time

C23_EntropyScoreInRange ==
    snapshot # NoSnapshot =>
        /\ Len(snapshot.mousePath) < 3 => snapshot.entropyScore = 50
        /\ snapshot.entropyScore \in 0..100

C23_Witness ==
    /\ snapshot # NoSnapshot
    /\ Len(snapshot.mousePath) >= 4
    /\ EqualTimestamps(snapshot.mousePath)
    /\ snapshot.entropyScore \in 1..49


(***************************************************************************)
(* C25: between two resets, whatever the interleaving of keydown and keyup *)
(* events, the dwell time recorded for key i is the time from the press of *)
(* key i to its release, and there are never more dwell times than keys.   *)
(***************************************************************************)
C25_DwellIsPressToRelease ==
    LET keystrokeDynamics == hookRef.keystrokeDynamics
    IN  /\ Len(keystrokeDynamics.dwellTimes) <= Len(keystrokeDynamics.keys)
        /\ \A i \in DOMAIN presses :
              presses[i].released =>
                  /\ i <= Len(keystrokeDynamics.dwellTimes)
                  /\ keystrokeDynamics.dwellTimes[i] = presses[i].up - presses[i].down


(***************************************************************************)
(* GravityChallenge: the slider component (GravityChallenge.tsx).  The     *)
(* state a handler sets is rendered, and the effect that watches           *)
(* sliderValue, status and isAnalyzing runs on what was rendered, before   *)
(* the next event is handled: a handler and the effect it triggers are one *)
(* step.  The two halves of handleComplete, before and after its await,    *)
(* and the two timers it arms are steps of their own.  sliderValue is kept *)
(* as the fraction of SLIDER_WIDTH the percentage is computed from.        *)
(***************************************************************************)
MaxSlides == 3       \* pointer moves delivered to the slider

SLIDER_WIDTH  == 300
HISTORY_LIMIT == 100

\* Math.max(0, Math.min(100, (x / SLIDER_WIDTH) * 100))
Percent(x) == Frac(Max(0, Min(100 * SLIDER_WIDTH, x * 100)), SLIDER_WIDTH)

\* push, then shift while more than 100 points are held
RecordMovement_NoShift(history, point) == Append(history, point)

RecordMovement(history, point) ==
    LET pushed == Append(history, point)
    IN  IF Len(pushed) > HISTORY_LIMIT THEN Tail(pushed) ELSE pushed

\* the condition of the effect that triggers completion
CompletionDue(value, status, analyzing) ==
    FracGT(value, 90) /\ status = "idle" /\ ~analyzing

\* generatePhysicsProof: the payload of the token
generatePhysicsProof(a) ==
    [sub |-> "gravity_challenge", verified |-> a.isHuman, confidence |-> a.confidence,
     reason |-> a.reasons[Len(a.reasons)], type |-> "physics_proof"]

\* what is rendered after a handler has set value, status, analyzing, the
\* trace, the calls in flight and the callbacks made, and the effect run on
\* it: handleComplete up to its await (which returns at once below 90%)
Render(value, status, analyzing, history, inflight, called) ==
    /\ sliderValue' = value
    /\ gcStatus' = status
    /\ points' = history
    /\ IF CompletionDue(value, status, analyzing) /\ ~FracLT(value, 90)
       THEN /\ isAnalyzing' = TRUE
            /\ analysis' = analyzePhysics(history)
            /\ pending' = Append(inflight, [stage |-> "await", analysis |-> analysis'])
            /\ callbacks' = Append(called,
                                   [event |-> "analysis", isHuman |-> analysis'.isHuman])
       ELSE /\ isAnalyzing' = analyzing
            /\ pending' = inflight
            /\ callbacks' = called
            /\ analysis' = analysis

Positions == {269, 270, 271}
Gaps == {0, 10}

\* onMouseMove: a pointer move over the slider at x, read at currentTime
gc_handleMouseMove(x, y, currentTime) ==
    /\ moveCount < MaxSlides
    /\ moveCount' = moveCount + 1
    /\ now' = currentTime
    /\ arrivals' = Append(arrivals, [point |-> MovementPoint(currentTime, x, y),
                                     status |-> gcStatus])
    /\ IF gcStatus = "idle"
       THEN Render(Percent(x), gcStatus, isAnalyzing,
                   RecordMovement(points, MovementPoint(currentTime, x, y)),
                   pending, callbacks)
       ELSE UNCHANGED <<sliderValue, gcStatus, isAnalyzing, pending, callbacks, physVars>>
    /\ UNCHANGED <<hookRef, keyboard, presses, snapshot, resets, riskVars, logVars,
                   concVars, sessVars, backVars>>

\* onMouseLeave
gc_handleMouseLeave ==
    /\ gcStatus = "idle" /\ FracLT(sliderValue, 90)
    /\ sliderValue # Percent(0)
    /\ Render(Percent(0), gcStatus, isAnalyzing, points, pending, callbacks)
    /\ UNCHANGED <<arrivals, moveCount, hookVars, riskVars, logVars, concVars,
                   sessVars, backVars>>

RemoveAt(s, i) == SubSeq(s, 1, i - 1) \o SubSeq(s, i + 1, Len(s))
FirstAt(s, stage) == CHOOSE i \in DOMAIN s :
                         s[i].stage = stage /\ \A j \in 1..(i - 1) : s[j].stage # stage

\* handleComplete after its await, taking the failure branch whatever the
\* verdict
handleComplete_Resume_Fail ==
    /\ \E i \in DOMAIN pending : pending[i].stage = "await"
    /\ LET i == FirstAt(pending, "await")
           a == pending[i].analysis
       IN  Render(sliderValue, "fail", FALSE, points,
                  [pending EXCEPT ![i] = [stage |-> "onFail", analysis |-> a]],
                  callbacks)
    /\ UNCHANGED <<arrivals, moveCount, hookVars, riskVars, logVars, concVars,
                   sessVars, backVars>>

\* handleComplete after its await: the verdict is shown and a timer armed
handleComplete_Resume ==
    /\ \E i \in DOMAIN pending : pending[i].stage = "await"
    /\ LET i == FirstAt(pending, "await")
           a == pending[i].analysis
       IN  Render(sliderValue, IF a.isHuman THEN "success" ELSE "fail", FALSE, points,
                  [pending EXCEPT ![i] =
                      IF a.isHuman
                      THEN [stage |-> "onSuccess", analysis |-> a,
                            proof |-> generatePhysicsProof(a)]
                      ELSE [stage |-> "onFail", analysis |-> a]],
                  callbacks)
    /\ UNCHANGED <<arrivals, moveCount, hookVars, riskVars, logVars, concVars,
                   sessVars, backVars>>

\* the timer armed on success
SuccessTimer ==
    /\ \E i \in DOMAIN pending : pending[i].stage = "onSuccess"
    /\ LET i == FirstAt(pending, "onSuccess")
       IN  /\ callbacks' = Append(callbacks, [event |-> "onSuccess",
                                              proof |-> pending[i].proof])
           /\ pending' = RemoveAt(pending, i)
    /\ UNCHANGED <<sliderValue, gcStatus, isAnalyzing, arrivals, moveCount, physVars,
                   hookVars, riskVars, logVars, concVars, sessVars, backVars>>

\* the timer armed on failure: onFail, then the component is reset
FailTimer ==
    /\ \E i \in DOMAIN pending : pending[i].stage = "onFail"
    /\ LET i == FirstAt(pending, "onFail")
       IN  Render(Percent(0), "idle", isAnalyzing, <<>>, RemoveAt(pending, i),
                  Append(callbacks, [event |-> "onFail"]))
    /\ arrivals' = <<>>
    /\ UNCHANGED <<moveCount, hookVars, riskVars, logVars, concVars, sessVars, backVars>>

\* traces the slider can hold before the pointer has passed 90%: they end
\* at x = 270 (90% exactly), y = 30
SliderTrace(n, first, pattern) ==
    LET t    == Trace(n, first, pattern, FALSE)
        last == t[Len(t)]
    IN  [i \in 1..Len(t) |->
            MovementPoint(t[i].timestamp, t[i].x + 270 - last.x, t[i].y + 30 - last.y)]

SliderPatterns ==
    {<<<<10, 1, 0>>>>,
     <<<<50, 3, 0>>, <<10, -2, 0>>, <<50, -3, 0>>, <<10, 3, 0>>, <<20, 0, 2>>,
       <<50, -1, 0>>>>}

SliderTraces ==
    {<<>>} \cup {SliderTrace(n, <<50, 5, 0>>, p) : n \in {14, 20}, p \in SliderPatterns}

\* traces of a pointer that passed 90% with its 20th sample and has gone on
\* moving since, every 5 ms, while handleComplete awaits: one sample short
\* of the limit
PassedTraces ==
    {Append(t, MovementPoint(t[Len(t)].timestamp + gap, 271, 30)) :
        t \in {SliderTrace(19, <<50, 5, 0>>, p) :
                  p \in {<<<<10, 1, 0>>>>, <<<<50, 3, 4>>, <<50, 3, -4>>>>}},
        gap \in {10, 50}}

AwaitedTrace(passed) ==
    passed \o [i \in 1..(HISTORY_LIMIT - 1 - Len(passed)) |->
                  MovementPoint(passed[Len(passed)].timestamp + 5 * i, 271, 30 + (i % 2))]

Delivered(history) == [i \in 1..Len(history) |-> [point |-> history[i], status |-> "idle"]]

\* the slider at rest, or with some samples recorded below 90%
InitIdle ==
    /\ points \in SliderTraces
    /\ analysis = NoAnalysis
    /\ isAnalyzing = FALSE
    /\ pending = <<>>
    /\ callbacks = <<>>

\* the slider while handleComplete awaits
InitAwaiting ==
    \E passed \in PassedTraces :
        /\ points = AwaitedTrace(passed)
        /\ analysis = analyzePhysics(passed)
        /\ isAnalyzing = TRUE
        /\ pending = <<[stage |-> "await", analysis |-> analysis]>>
        /\ callbacks = <<[event |-> "analysis", isHuman |-> analysis.isHuman]>>

InitChallenge ==
    /\ LogAtBoot /\ ConcAtRest /\ RiskAtRest /\ SessAtRest /\ BackAtRest
    /\ hookRef = NoTelemetryRef /\ keyboard = {} /\ presses = <<>>
    /\ snapshot = NoSnapshot /\ resets = 0
    /\ InitIdle \/ InitAwaiting
    /\ now = IF points = <<>> THEN PageLoad ELSE points[Len(points)].timestamp
    /\ sliderValue = IF points = <<>> THEN Percent(0) ELSE Percent(points[Len(points)].x)
    /\ gcStatus = "idle"
    /\ arrivals = Delivered(points)
    /\ moveCount = 0

NextChallenge ==
    \/ \E x \in Positions, gap \in Gaps : gc_handleMouseMove(x, 30, now + gap)
    \/ gc_handleMouseLeave
    \/ handleComplete_Resume
    \/ SuccessTimer
    \/ FailTimer

SpecChallenge == InitChallenge /\ [][NextChallenge]_vars

(***************************************************************************)
(* C22: the movement trace holds at most 100 samples, in arrival order,    *)
(* and they are the latest of the samples that arrived while the status    *)
(* was idle: the oldest is dropped first, and a move that arrives in       *)
(* another status is not recorded.                                         *)
(***************************************************************************)
ArrivedIdle == SelectSeq(arrivals, LAMBDA a : a.status = "idle")

C22_TraceIsLatestHundred ==
    /\ Len(points) <= 100
    /\ points = [i \in 1..Len(LastN(ArrivedIdle, 100)) |-> LastN(ArrivedIdle, 100)[i].point]

C22_Witness ==
    /\ Len(points) = 100
    /\ Len(ArrivedIdle) > 100
    /\ \E i \in DOMAIN arrivals : arrivals[i].status # "idle"

(***************************************************************************)
(* C26: a pass of the slider beyond 90% in status idle with no analysis    *)
(* running starts exactly one analysis, and the analysis ends in exactly   *)
(* one callback, onSuccess with a proof if the verdict is human and onFail *)
(* otherwise; no second analysis starts while one is in flight or while    *)
(* the status is success or fail.  In the history, analyses and callbacks  *)
(* alternate, every callback is the one its analysis calls for, at most    *)
(* one call is in flight and it is the one whose callback is still due,    *)
(* and it can always take its next step.                                   *)
(***************************************************************************)
C26_OneAnalysisOneCallback ==
    /\ ~(FracGT(sliderValue, 90) /\ gcStatus = "idle" /\ ~isAnalyzing)
    /\ Len(pending) <= 1
    /\ (Len(pending) = 1) <=> (Len(callbacks) % 2 = 1)
    /\ (Len(pending) = 1) =>
           /\ pending[1].analysis.isHuman = callbacks[Len(callbacks)].isHuman
           /\ ENABLED (handleComplete_Resume \/ SuccessTimer \/ FailTimer)
    /\ gcStatus # "idle" => ~isAnalyzing
    /\ \A i \in DOMAIN callbacks :
           IF i % 2 = 1
           THEN callbacks[i].event = "analysis"
           ELSE IF callbacks[i - 1].isHuman
                THEN callbacks[i].event = "onSuccess" /\ callbacks[i].proof.verified
                ELSE callbacks[i].event = "onFail"

\* an analysis with the verdict human has ended in onSuccess, and pointer
\* moves arrived while it was in flight and while its verdict was shown
C26_Witness ==
    /\ Len(callbacks) = 2
    /\ callbacks[1].isHuman
    /\ callbacks[2].event = "onSuccess"
    /\ \E i \in DOMAIN arrivals : arrivals[i].status = "success"
    /\ Len(ArrivedIdle) >= 100

=============================================================================
